---- MODULE Spec2Model ----
(***************************************************************************)
(* Transactional consistency engine of the front-office contract manager   *)
(* (src/app.py): four tables (people, units, positions, contracts) in one  *)
(* SQLite file, request handlers that run multi-statement units of work    *)
(* through execute_in_transaction (BEGIN IMMEDIATE ... COMMIT / ROLLBACK), *)
(* single-statement writes through execute_db and reads through query_db.  *)
(*                                                                         *)
(* Each request is a process that walks through the statements of its      *)
(* handler.  A transaction works on a private copy of the store (tx[p])    *)
(* that replaces the committed store (db) at COMMIT and is dropped at      *)
(* ROLLBACK; query_db reads db.                                            *)
(***************************************************************************)
EXTENDS Integers, Sequences, FiniteSets, TLC

\* ------------------------------------------------------------------ bounds
MaxUnits     == 2      \* rows ever inserted into units (AUTOINCREMENT cap)
MaxPositions == 2      \* rows ever inserted into positions
MaxContracts == 3      \* rows ever inserted into contracts
MaxPersonId  == 6      \* largest identifier in the allocator's input sets
MaxYears     == 3      \* largest contract length a form submits

Procs       == {1, 2}             \* concurrent request threads
UnitNames   == {"Offense", "Defense"}
Codes       == {"QB", "LB"}
PersonNames == {"Ann"}
Salaries    == {5}

UnitIds     == 1..MaxUnits
PositionIds == 1..MaxPositions
ContractIds == 1..MaxContracts
PersonIds   == 1..MaxContracts

VARIABLES
    db,      \* the committed store: what a new connection reads
    lock,    \* holder of SQLite's RESERVED (write) lock, 0 when free
    pc,      \* pc[p]: the statement request p executes next
    req,     \* req[p]: the handler p runs and the form fields it has read
    loc,     \* loc[p]: the handler's local variables
    tx,      \* tx[p]: the store as seen through p's transaction
    pre,     \* pre[p]: the committed store when p's transaction began
    hist,    \* history of Person identifiers handed out since the empty store
    alloc,   \* the identity allocator run on its own (AllocSpec)
    form,    \* a contract form under validation (ValidateSpec)
    rep,     \* a report request (ReportSpec)
    boot,    \* where the module body of a worker stands: init_db, then serving
    trip     \* history of the last create_contract and the delete that undid it

vars == <<db, lock, pc, req, loc, tx, pre, hist, alloc, form, rep, boot, trip>>

\* ------------------------------------------------------------ store layer
EmptyMap == [x \in {} |-> 0]

\* The schema of init_db on a fresh file: four empty tables; seq is
\* sqlite_sequence, the AUTOINCREMENT high-water marks.
EmptyDb ==
    [people    |-> EmptyMap,
     units     |-> EmptyMap,
     positions |-> EmptyMap,
     contracts |-> EmptyMap,
     seq       |-> [units |-> 0, positions |-> 0, contracts |-> 0]]

Put(f, k, v) == [x \in DOMAIN f \cup {k} |-> IF x = k THEN v ELSE f[x]]
Drop(f, S)   == [x \in DOMAIN f \ S |-> f[x]]

\* A statement either succeeds with a new store or raises.
Ok(d)     == [err |-> "none", d |-> d]
Fail(e,d) == [err |-> e, d |-> d]

ContractsOfPerson(d, pid) ==
    {c \in DOMAIN d.contracts : d.contracts[c].person_id = pid}
ContractsOfUnit(d, u) ==
    {c \in DOMAIN d.contracts : d.contracts[c].unit_id = u}
ContractsOfPosition(d, pos) ==
    {c \in DOMAIN d.contracts : d.contracts[c].position_id = pos}
PositionsOfUnit(d, u) ==
    {q \in DOMAIN d.positions : d.positions[q].unit_id = u}

\* The contracts table without its FOREIGN KEY (person_id) clause.
ContractFkOkNoPerson(d, row) ==
    /\ row.position_id \in DOMAIN d.positions
    /\ row.unit_id \in DOMAIN d.units

\* FOREIGN KEY clauses of contracts, enforced by PRAGMA foreign_keys = ON.
ContractFkOk(d, row) ==
    /\ row.person_id \in DOMAIN d.people
    /\ row.position_id \in DOMAIN d.positions
    /\ row.unit_id \in DOMAIN d.units

\* INSERT INTO people (person_id, name) VALUES (?, ?)
InsertPerson(d, pid, name) ==
    IF pid \in DOMAIN d.people
    THEN Fail("integrity", d)
    ELSE Ok([d EXCEPT !.people = Put(d.people, pid, name)])

\* INSERT INTO contracts (...) VALUES (...)
InsertContract(d, row) ==
    IF ~ContractFkOk(d, row)
    THEN Fail("integrity", d)
    ELSE LET id == d.seq.contracts + 1
         IN Ok([d EXCEPT !.contracts = Put(d.contracts, id, row),
                         !.seq.contracts = id])

\* UPDATE contracts SET ... WHERE contract_id = ?
UpdateContract(d, c, row) ==
    IF c \notin DOMAIN d.contracts THEN Ok(d)
    ELSE IF ~ContractFkOk(d, row) THEN Fail("integrity", d)
    ELSE Ok([d EXCEPT !.contracts[c] = row])

\* DELETE FROM contracts WHERE <column> = ?   (S: the matching rows)
DeleteContractsSkipped(d, S) == Ok(d)

DeleteContracts(d, S) == Ok([d EXCEPT !.contracts = Drop(d.contracts, S)])

\* DELETE FROM people WHERE person_id = ?
DeletePerson(d, pid) ==
    IF ContractsOfPerson(d, pid) # {} /\ pid \in DOMAIN d.people
    THEN Fail("integrity", d)
    ELSE Ok([d EXCEPT !.people = Drop(d.people, {pid})])

\* DELETE FROM positions WHERE <column> = ?   (S: the matching rows)
DeletePositionsSkipped(d, S) == Ok(d)

DeletePositions(d, S) ==
    IF \E c \in DOMAIN d.contracts : d.contracts[c].position_id \in S
    THEN Fail("integrity", d)
    ELSE Ok([d EXCEPT !.positions = Drop(d.positions, S)])

\* DELETE FROM units WHERE unit_id = ?
DeleteUnitRowSkipped(d, u) == Ok(d)

DeleteUnitRow(d, u) ==
    IF /\ u \in DOMAIN d.units
       /\ (ContractsOfUnit(d, u) # {} \/ PositionsOfUnit(d, u) # {})
    THEN Fail("integrity", d)
    ELSE Ok([d EXCEPT !.units = Drop(d.units, {u})])

\* UPDATE positions SET code = ?, description = ?, unit_id = ? WHERE position_id = ?
UpdatePositionNoUnique(d, pos, code, u) ==
    IF pos \notin DOMAIN d.positions THEN Ok(d)
    ELSE IF u \notin DOMAIN d.units THEN Fail("integrity", d)
    ELSE Ok([d EXCEPT !.positions[pos] = [code |-> code, unit_id |-> u]])

UpdatePosition(d, pos, code, u) ==
    IF pos \notin DOMAIN d.positions THEN Ok(d)
    ELSE IF \E q \in DOMAIN d.positions \ {pos} : d.positions[q].code = code
         THEN Fail("integrity", d)
    ELSE IF u \notin DOMAIN d.units THEN Fail("integrity", d)
    ELSE Ok([d EXCEPT !.positions[pos] = [code |-> code, unit_id |-> u]])

\* UPDATE contracts SET unit_id = ? WHERE position_id = ?
UpdateContractsUnitSkipped(d, u, pos) == Ok(d)

UpdateContractsUnit(d, u, pos) ==
    LET S == ContractsOfPosition(d, pos)
    IN IF S # {} /\ u \notin DOMAIN d.units THEN Fail("integrity", d)
       ELSE Ok([d EXCEPT !.contracts =
                   [c \in DOMAIN d.contracts |->
                       IF c \in S THEN [d.contracts[c] EXCEPT !.unit_id = u]
                       ELSE d.contracts[c]]])

\* INSERT INTO units (name) VALUES (?)
InsertUnit(d, name) ==
    IF \E u \in DOMAIN d.units : d.units[u] = name
    THEN Fail("integrity", d)
    ELSE LET id == d.seq.units + 1
         IN Ok([d EXCEPT !.units = Put(d.units, id, name), !.seq.units = id])

\* UPDATE units SET name = ? WHERE unit_id = ?
UpdateUnit(d, u, name) ==
    IF u \notin DOMAIN d.units THEN Ok(d)
    ELSE IF \E v \in DOMAIN d.units \ {u} : d.units[v] = name
         THEN Fail("integrity", d)
    ELSE Ok([d EXCEPT !.units[u] = name])

\* INSERT INTO positions (code, description, unit_id) VALUES (?, ?, ?)
InsertPosition(d, code, u) ==
    IF \E q \in DOMAIN d.positions : d.positions[q].code = code
    THEN Fail("integrity", d)
    ELSE IF u \notin DOMAIN d.units THEN Fail("integrity", d)
    ELSE LET id == d.seq.positions + 1
         IN Ok([d EXCEPT !.positions = Put(d.positions, id,
                                            [code |-> code, unit_id |-> u]),
                         !.seq.positions = id])

\* _position_unit_matches(conn, position_id, unit_id)
PositionUnitMatchesAnyUnit(d, pos, u) == pos \in DOMAIN d.positions

PositionUnitMatches(d, pos, u) ==
    pos \in DOMAIN d.positions /\ d.positions[pos].unit_id = u

\* ------------------------------------------------------ identity allocator
\* SELECT person_id FROM people ORDER BY person_id
RECURSIVE SortedIds(_)
SortedIds(S) ==
    IF S = {} THEN <<>>
    ELSE LET m == CHOOSE x \in S : \A y \in S : x <= y
         IN <<m>> \o SortedIds(S \ {m})

\* One iteration of "for pid in existing_ids": the new candidate and whether
\* the loop breaks.
ScanStepNoReuse(next_id, pid) ==
    IF pid >= next_id THEN [next_id |-> pid + 1, brk |-> FALSE]
    ELSE [next_id |-> next_id, brk |-> FALSE]

ScanStep(next_id, pid) ==
    IF pid = next_id THEN [next_id |-> next_id + 1, brk |-> FALSE]
    ELSE IF pid > next_id THEN [next_id |-> next_id, brk |-> TRUE]
    ELSE [next_id |-> next_id, brk |-> FALSE]

RECURSIVE Scan(_, _, _)
Scan(ids, i, next_id) ==
    IF i > Len(ids) THEN next_id
    ELSE LET s == ScanStep(next_id, ids[i])
         IN IF s.brk THEN s.next_id ELSE Scan(ids, i + 1, s.next_id)

\* next_id = 1; for pid in existing_ids: ...
LowestUnusedIdAfterMax(d) ==
    LET ids == SortedIds(DOMAIN d.people)
    IN IF ids = <<>> THEN 1 ELSE ids[Len(ids)] + 1

LowestUnusedId(d) == Scan(SortedIds(DOMAIN d.people), 1, 1)


\* ------------------------------------------------------- request processes
NoReq == [op |-> "none", contract_id |-> 0, position_id |-> 0, unit_id |-> 0,
          code |-> ""]
NoRow == [person_id |-> 0, position_id |-> 0, unit_id |-> 0, salary |-> 0]
NoLoc == [next_id |-> 0, person_ids |-> {}, seen |-> NoRow, err |-> "none"]

AllocIdle == [ids |-> <<>>, i |-> 0, next_id |-> 0, pc |-> "off"]

\* No history of create_contract is kept.
NoTrip == [phase |-> "off", people |-> EmptyMap, contracts |-> EmptyMap,
           person_id |-> 0, contract_id |-> 0]

\* No contract form is being validated; no report is being produced.
FormIdle == [pc |-> "off"]
RepIdle == [pc |-> "off"]

Init ==
    /\ db = EmptyDb
    /\ lock = 0
    /\ pc = [p \in Procs |-> "idle"]
    /\ req = [p \in Procs |-> NoReq]
    /\ loc = [p \in Procs |-> NoLoc]
    /\ tx = [p \in Procs |-> EmptyDb]
    /\ pre = [p \in Procs |-> EmptyDb]
    /\ hist = [phase |-> "creating", ids |-> <<>>, freed |-> 0]
    /\ alloc = AllocIdle
    /\ form = FormIdle
    /\ rep = RepIdle
    /\ boot = "run"
    /\ trip = NoTrip

InFlight(op) == Cardinality({p \in Procs : req[p].op = op})

Goto(p, label) == pc' = [pc EXCEPT ![p] = label]

\* The first statement of each unit of work.
FirstStatement(op) ==
    CASE op = "create_contract" -> "cc_select_ids"
      [] op = "edit_contract"   -> "ec_check"
      [] op = "delete_contract" -> "dc_select"
      [] op = "delete_unit"     -> "du_select"
      [] op = "delete_position" -> "dp_select"
      [] op = "edit_position"   -> "ep_update_position"

\* finally: conn.close(); the handler flashes its message and returns: the
\* request thread is free for the next request.
Return(p) ==
    /\ Goto(p, "idle")
    /\ req' = [req EXCEPT ![p] = NoReq]
    /\ loc' = [loc EXCEPT ![p] = NoLoc]
    /\ tx' = [tx EXCEPT ![p] = EmptyDb]
    /\ pre' = [pre EXCEPT ![p] = EmptyDb]

\* ------------------------------------------------- execute_in_transaction
\* BEGIN IMMEDIATE takes the write lock or waits for it.
CanBeginDeferred(p) == TRUE

CanBegin(p) == lock = 0

\* What other connections read after a statement ran inside a transaction,
\* after COMMIT and after ROLLBACK (committed: the store file before,
\* working: the store as the transaction sees it).
AfterStatementAutocommit(committed, working) == working

AfterStatement(committed, working) == committed

AfterCommit(committed, working) == working

AfterRollbackKeeps(committed, working) == working

AfterRollback(committed, working) == committed

\* conn.execute("BEGIN IMMEDIATE") succeeds.
Begin(p) ==
    /\ pc[p] = "begin"
    /\ CanBegin(p)
    /\ lock' = p
    /\ tx' = [tx EXCEPT ![p] = db]
    /\ pre' = [pre EXCEPT ![p] = db]
    /\ Goto(p, FirstStatement(req[p].op))
    /\ UNCHANGED <<db, req, loc, hist, alloc, form, rep, boot, trip>>

\* conn.execute("BEGIN IMMEDIATE") gives up waiting for the lock ("database is
\* locked"); the except clause then runs ROLLBACK on a connection without a
\* transaction, which raises in turn ("cannot rollback - no transaction is
\* active"), the finally clause closes the connection, and work is never
\* called.
BeginBusy(p) ==
    /\ pc[p] = "begin"
    /\ lock \notin {0, p}
    /\ Return(p)
    /\ UNCHANGED <<db, lock, hist, alloc, form, rep, boot, trip>>

\* The exception the except clause of execute_in_transaction catches: the
\* one BEGIN raised, or the one work raised.
Caught(p) ==
    IF pc[p] = "begin" THEN "locked" ELSE loc[p].err

\* The exception that leaves execute_in_transaction through its except
\* clause: the one ROLLBACK itself raises when there is no transaction, or
\* else the caught one, re-raised after ROLLBACK.
Raised(p) ==
    IF pc[p] = "begin" THEN "no transaction" ELSE Caught(p)

\* A statement of the unit of work ran with result r: continue at label, or
\* leave work with the exception.
Exec(p, r, label) ==
    IF r.err = "none"
    THEN /\ tx' = [tx EXCEPT ![p] = r.d]
         /\ db' = AfterStatement(db, r.d)
         /\ Goto(p, label)
         /\ UNCHANGED <<lock, loc, pre, hist, alloc, form, rep, boot, trip>>
    ELSE /\ loc' = [loc EXCEPT ![p].err = r.err]
         /\ Goto(p, "rollback")
         /\ UNCHANGED <<db, lock, tx, pre, hist, alloc, form, rep, boot, trip>>

\* The handler is entered: nothing of its form is read yet.  (A form field
\* is drawn where the handler first uses it; the fields do not depend on
\* the store.)
Enter(p, op) ==
    /\ pc[p] = "idle"
    /\ req' = [req EXCEPT ![p] = [NoReq EXCEPT !.op = op]]
    /\ Goto(p, "begin")
    /\ UNCHANGED <<db, lock, loc, tx, pre, hist, alloc, form, rep, boot, trip>>

\* History of identifier allocation, advanced at each commit.
HistAfterCommit(p) ==
    LET removed == DOMAIN db.people \ DOMAIN tx[p].people
    IN IF req[p].op = "create_contract"
       THEN IF hist.phase = "creating"
            THEN [hist EXCEPT !.ids = Append(hist.ids, loc[p].next_id)]
            ELSE [phase |-> "other", ids |-> <<>>, freed |-> 0]
       ELSE IF removed = {} THEN hist
       ELSE IF /\ hist.phase = "creating"
               /\ req[p].op = "delete_contract"
            THEN [phase |-> "freed", ids |-> <<>>,
                  freed |-> CHOOSE k \in removed : TRUE]
       ELSE [phase |-> "other", ids |-> <<>>, freed |-> 0]

\* History of the last committed create_contract, kept while trip.phase is
\* not "off": the people and contracts tables before it, the identifiers it
\* assigned, and whether the very next commit was the delete_contract of
\* the Contract it created.
TripAfterCommit(p) ==
    IF trip.phase = "off" THEN trip
    ELSE IF req[p].op = "create_contract"
    THEN [phase |-> "created",
          people |-> db.people, contracts |-> db.contracts,
          person_id |-> loc[p].next_id,
          contract_id |-> tx[p].seq.contracts]
    ELSE IF /\ req[p].op = "delete_contract"
            /\ trip.phase = "created"
            /\ req[p].contract_id = trip.contract_id
    THEN [trip EXCEPT !.phase = "deleted"]
    ELSE [NoTrip EXCEPT !.phase = "watch"]

\* conn.execute("COMMIT"); return result
Commit(p) ==
    /\ pc[p] = "commit"
    /\ db' = AfterCommit(db, tx[p])
    /\ lock' = IF lock = p THEN 0 ELSE lock
    /\ hist' = HistAfterCommit(p)
    /\ trip' = TripAfterCommit(p)
    /\ Return(p)
    /\ UNCHANGED <<alloc, form, rep, boot>>

\* except Exception: conn.execute("ROLLBACK"); raise
Rollback(p) ==
    /\ pc[p] = "rollback"
    /\ db' = AfterRollback(db, tx[p])
    /\ lock' = IF lock = p THEN 0 ELSE lock
    /\ Return(p)
    /\ UNCHANGED <<hist, alloc, form, rep, boot, trip>>

\* What the handler tells its caller.
Flash(op, err) ==
    CASE err = "none"     -> "ok"
      [] err = "notfound" -> "notfound"
      [] op \in {"create_contract", "edit_contract"} -> "error"
      [] op = "edit_position" /\ err = "integrity" -> "error"
      [] OTHER -> "crash"

\* --------------------------------------------------------- create_contract
CreateContract(p) ==
    /\ db.seq.contracts + InFlight("create_contract") < MaxContracts
    /\ Enter(p, "create_contract")

CcSelectIds(p) ==
    /\ pc[p] = "cc_select_ids"
    /\ loc' = [loc EXCEPT ![p].next_id = LowestUnusedId(tx[p])]
    /\ Goto(p, "cc_insert_person")
    /\ UNCHANGED <<db, lock, req, tx, pre, hist, alloc, form, rep, boot, trip>>

CcInsertPerson(p) ==
    /\ pc[p] = "cc_insert_person"
    /\ \E n \in PersonNames :
          Exec(p, InsertPerson(tx[p], loc[p].next_id, n), "cc_check")
    /\ UNCHANGED req

CcCheck(p) ==
    /\ pc[p] = "cc_check"
    /\ \E q \in PositionIds, u \in UnitIds :
          /\ req' = [req EXCEPT ![p].position_id = q, ![p].unit_id = u]
          /\ IF PositionUnitMatches(tx[p], q, u)
             THEN Goto(p, "cc_insert_contract") /\ UNCHANGED loc
             ELSE Goto(p, "rollback") /\ loc' = [loc EXCEPT ![p].err = "business"]
    /\ UNCHANGED <<db, lock, tx, pre, hist, alloc, form, rep, boot, trip>>

\* INSERT INTO contracts with the payload; the form's salary is one of S.
CcInsertContractFrom(p, S) ==
    /\ pc[p] = "cc_insert_contract"
    /\ \E s \in S :
          Exec(p, InsertContract(tx[p],
                    [person_id |-> loc[p].next_id,
                     position_id |-> req[p].position_id,
                     unit_id |-> req[p].unit_id, salary |-> s]),
               "commit")
    /\ UNCHANGED req

CcInsertContract(p) == CcInsertContractFrom(p, Salaries)

\* ----------------------------------------------------------- edit_contract
\* query_db(query, args): a read on a connection of its own, outside any
\* transaction.
query_db == db

\* contract = query_db("SELECT * FROM contracts WHERE contract_id = ?");
\* if contract is None: flash("Contract not found.")
EditContract(p) ==
    /\ pc[p] = "idle"
    /\ \E c \in ContractIds :
          IF c \in DOMAIN query_db.contracts
          THEN /\ req' = [req EXCEPT ![p] =
                    [NoReq EXCEPT !.op = "edit_contract", !.contract_id = c]]
               /\ loc' = [loc EXCEPT ![p].seen = query_db.contracts[c]]
               /\ Goto(p, "begin")
          ELSE UNCHANGED <<pc, req, loc>>
    /\ UNCHANGED <<db, lock, tx, pre, hist, alloc, form, rep, boot, trip>>

EcCheck(p) ==
    /\ pc[p] = "ec_check"
    /\ \E q \in PositionIds, u \in UnitIds :
          /\ req' = [req EXCEPT ![p].position_id = q, ![p].unit_id = u]
          /\ IF PositionUnitMatches(tx[p], q, u)
             THEN Goto(p, "ec_update") /\ UNCHANGED loc
             ELSE Goto(p, "rollback") /\ loc' = [loc EXCEPT ![p].err = "business"]
    /\ UNCHANGED <<db, lock, tx, pre, hist, alloc, form, rep, boot, trip>>

EcUpdate(p) ==
    /\ pc[p] = "ec_update"
    /\ \E pid \in PersonIds, s \in Salaries :
          Exec(p, UpdateContract(tx[p], req[p].contract_id,
                    [person_id |-> pid, position_id |-> req[p].position_id,
                     unit_id |-> req[p].unit_id, salary |-> s]),
               "commit")
    /\ UNCHANGED req

\* --------------------------------------------------------- delete_contract
DeleteContract(p) == Enter(p, "delete_contract")

\* work without "if not row: return": row["person_id"] of no row raises.
DcSelectNoReturn(p) ==
    /\ pc[p] = "dc_select"
    /\ \E c \in ContractIds :
          /\ req' = [req EXCEPT ![p].contract_id = c]
          /\ IF c \in DOMAIN tx[p].contracts
             THEN /\ loc' = [loc EXCEPT ![p].person_ids =
                                {tx[p].contracts[c].person_id}]
                  /\ Goto(p, "dc_delete")
             ELSE /\ loc' = [loc EXCEPT ![p].err = "error"]
                  /\ Goto(p, "rollback")
    /\ UNCHANGED <<db, lock, tx, pre, hist, alloc, form, rep, boot, trip>>

\* SELECT person_id FROM contracts WHERE contract_id = ?; if not row: return
DcSelect(p) ==
    /\ pc[p] = "dc_select"
    /\ \E c \in ContractIds :
          /\ req' = [req EXCEPT ![p].contract_id = c]
          /\ IF c \in DOMAIN tx[p].contracts
             THEN /\ loc' = [loc EXCEPT ![p].person_ids =
                                {tx[p].contracts[c].person_id}]
                  /\ Goto(p, "dc_delete")
             ELSE Goto(p, "commit") /\ UNCHANGED loc
    /\ UNCHANGED <<db, lock, tx, pre, hist, alloc, form, rep, boot, trip>>

DcDelete(p) ==
    /\ pc[p] = "dc_delete"
    /\ Exec(p, DeleteContracts(tx[p], {req[p].contract_id}), "dc_orphan")
    /\ UNCHANGED req

\* remaining = COUNT(*) ...; if remaining == 0: DELETE FROM people ...
OrphanCleanupNever(d, pid) == Ok(d)

OrphanCleanup(d, pid) ==
    IF Cardinality(ContractsOfPerson(d, pid)) = 0
    THEN DeletePerson(d, pid)
    ELSE Ok(d)

DcOrphan(p) ==
    /\ pc[p] = "dc_orphan"
    /\ \E pid \in loc[p].person_ids :
          Exec(p, OrphanCleanup(tx[p], pid), "commit")
    /\ UNCHANGED req

\* ------------------------------------------------------------- delete_unit
DeleteUnit(p) == Enter(p, "delete_unit")

\* SELECT DISTINCT person_id FROM contracts WHERE unit_id = ?
DuSelect(p) ==
    /\ pc[p] = "du_select"
    /\ \E u \in UnitIds :
          /\ req' = [req EXCEPT ![p].unit_id = u]
          /\ loc' = [loc EXCEPT ![p].person_ids =
                        {tx[p].contracts[c].person_id :
                            c \in ContractsOfUnit(tx[p], u)}]
    /\ Goto(p, "du_delete_contracts")
    /\ UNCHANGED <<db, lock, tx, pre, hist, alloc, form, rep, boot, trip>>

DuDeleteContracts(p) ==
    /\ pc[p] = "du_delete_contracts"
    /\ Exec(p, DeleteContracts(tx[p], ContractsOfUnit(tx[p], req[p].unit_id)),
            "du_orphans")
    /\ UNCHANGED req

\* for pid in person_ids: one iteration, or the end of the loop.
OrphanLoop(p, label) ==
    IF loc[p].person_ids = {}
    THEN /\ Goto(p, label)
         /\ UNCHANGED <<db, lock, loc, tx, pre, hist, alloc, form, rep, boot, trip>>
    ELSE \E pid \in loc[p].person_ids :
            LET r == OrphanCleanup(tx[p], pid)
            IN IF r.err = "none"
               THEN /\ tx' = [tx EXCEPT ![p] = r.d]
                    /\ db' = AfterStatement(db, r.d)
                    /\ loc' = [loc EXCEPT ![p].person_ids = @ \ {pid}]
                    /\ UNCHANGED <<lock, pc, pre, hist, alloc, form, rep, boot, trip>>
               ELSE /\ loc' = [loc EXCEPT ![p].err = r.err]
                    /\ Goto(p, "rollback")
                    /\ UNCHANGED <<db, lock, tx, pre, hist, alloc, form, rep, boot, trip>>

DuOrphans(p) ==
    /\ pc[p] = "du_orphans"
    /\ OrphanLoop(p, "du_delete_positions")
    /\ UNCHANGED req

DuDeletePositions(p) ==
    /\ pc[p] = "du_delete_positions"
    /\ Exec(p, DeletePositions(tx[p], PositionsOfUnit(tx[p], req[p].unit_id)),
            "du_delete_unit")
    /\ UNCHANGED req

DuDeleteUnit(p) ==
    /\ pc[p] = "du_delete_unit"
    /\ Exec(p, DeleteUnitRow(tx[p], req[p].unit_id), "commit")
    /\ UNCHANGED req

\* --------------------------------------------------------- delete_position
DeletePosition(p) == Enter(p, "delete_position")

\* SELECT DISTINCT person_id FROM contracts WHERE position_id = ?
DpSelect(p) ==
    /\ pc[p] = "dp_select"
    /\ \E q \in PositionIds :
          /\ req' = [req EXCEPT ![p].position_id = q]
          /\ loc' = [loc EXCEPT ![p].person_ids =
                        {tx[p].contracts[c].person_id :
                            c \in ContractsOfPosition(tx[p], q)}]
    /\ Goto(p, "dp_delete_contracts")
    /\ UNCHANGED <<db, lock, tx, pre, hist, alloc, form, rep, boot, trip>>

DpDeleteContracts(p) ==
    /\ pc[p] = "dp_delete_contracts"
    /\ Exec(p, DeleteContracts(tx[p], ContractsOfPosition(tx[p], req[p].position_id)),
            "dp_orphans")
    /\ UNCHANGED req

DpOrphans(p) ==
    /\ pc[p] = "dp_orphans"
    /\ OrphanLoop(p, "dp_delete_position")
    /\ UNCHANGED req

DpDeletePosition(p) ==
    /\ pc[p] = "dp_delete_position"
    /\ Exec(p, DeletePositions(tx[p], {req[p].position_id} \cap DOMAIN tx[p].positions),
            "commit")
    /\ UNCHANGED req

\* ----------------------------------------------------------- edit_position
\* position = query_db("SELECT * FROM positions WHERE position_id = ?");
\* if position is None: flash("Position not found.")
EditPosition(p) ==
    /\ pc[p] = "idle"
    /\ \E q \in PositionIds :
          IF q \in DOMAIN query_db.positions
          THEN /\ req' = [req EXCEPT ![p] =
                    [NoReq EXCEPT !.op = "edit_position", !.position_id = q]]
               /\ Goto(p, "begin")
          ELSE UNCHANGED <<pc, req>>
    /\ UNCHANGED <<db, lock, loc, tx, pre, hist, alloc, form, rep, boot, trip>>

EpUpdatePosition(p) ==
    /\ pc[p] = "ep_update_position"
    /\ \E k \in Codes, u \in UnitIds :
          /\ req' = [req EXCEPT ![p].unit_id = u, ![p].code = k]
          /\ Exec(p, UpdatePosition(tx[p], req[p].position_id, k, u),
                  "ep_update_contracts")

EpUpdateContracts(p) ==
    /\ pc[p] = "ep_update_contracts"
    /\ Exec(p, UpdateContractsUnit(tx[p], req[p].unit_id, req[p].position_id),
            "commit")
    /\ UNCHANGED req

\* ------------------------------------------- single-statement writes
\* execute_db(query, args): one statement, committed at once; like every
\* write it needs the write lock.  A statement that raises (r.err is not
\* "none") commits nothing: r.d is the store it ran on.
ExecuteDb(r) ==
    /\ lock = 0
    /\ db' = r.d
    /\ UNCHANGED <<lock, pc, req, loc, tx, pre, hist, alloc, form, rep, boot, trip>>

\* list_units (POST): add a Unit.
AddUnit(p) ==
    /\ pc[p] = "idle"
    /\ db.seq.units < MaxUnits
    /\ \E n \in UnitNames : ExecuteDb(InsertUnit(db, n))

\* edit_unit (POST): rename a Unit.
EditUnit(p) ==
    /\ pc[p] = "idle"
    /\ \E u \in DOMAIN query_db.units, n \in UnitNames :
          /\ db.units[u] # n
          /\ ExecuteDb(UpdateUnit(db, u, n))

\* list_positions (POST): add a Position.
AddPosition(p) ==
    /\ pc[p] = "idle"
    /\ db.seq.positions < MaxPositions
    /\ \E k \in Codes, u \in UnitIds : ExecuteDb(InsertPosition(db, k, u))

\* One request at a time.
SeqProcs == {1}

Next ==
    \E p \in SeqProcs :
        \/ Begin(p) \/ Commit(p) \/ Rollback(p)
        \/ CreateContract(p) \/ CcSelectIds(p) \/ CcInsertPerson(p)
        \/ CcCheck(p) \/ CcInsertContract(p)
        \/ EditContract(p) \/ EcCheck(p) \/ EcUpdate(p)
        \/ DeleteContract(p) \/ DcSelect(p) \/ DcDelete(p) \/ DcOrphan(p)
        \/ DeleteUnit(p) \/ DuSelect(p) \/ DuDeleteContracts(p) \/ DuOrphans(p)
        \/ DuDeletePositions(p) \/ DuDeleteUnit(p)
        \/ DeletePosition(p) \/ DpSelect(p) \/ DpDeleteContracts(p)
        \/ DpOrphans(p) \/ DpDeletePosition(p)
        \/ EditPosition(p) \/ EpUpdatePosition(p) \/ EpUpdateContracts(p)
        \/ AddUnit(p) \/ EditUnit(p) \/ AddPosition(p)

Spec == Init /\ [][Next]_vars

\* ------------------------------------------------ concurrent requests
\* A store the sequential operations reach: two Units with a Position each,
\* and one Contract that was created and deleted again.
ConcDb ==
    [people    |-> EmptyMap,
     units     |-> (1 :> "Offense" @@ 2 :> "Defense"),
     positions |-> (1 :> [code |-> "QB", unit_id |-> 1]
                    @@ 2 :> [code |-> "LB", unit_id |-> 2]),
     contracts |-> EmptyMap,
     seq       |-> [units |-> 2, positions |-> 2, contracts |-> 1]]

ConcInit ==
    /\ db = ConcDb
    /\ lock = 0
    /\ pc = [p \in Procs |-> "idle"]
    /\ req = [p \in Procs |-> NoReq]
    /\ loc = [p \in Procs |-> NoLoc]
    /\ tx = [p \in Procs |-> EmptyDb]
    /\ pre = [p \in Procs |-> EmptyDb]
    /\ hist = [phase |-> "freed", ids |-> <<>>, freed |-> 1]
    /\ alloc = AllocIdle
    /\ form = FormIdle
    /\ rep = RepIdle
    /\ boot = "run"
    /\ trip = NoTrip

\* Two request threads on that store.
ConcNext ==
    \E p \in Procs :
        \/ Begin(p) \/ BeginBusy(p) \/ Commit(p) \/ Rollback(p)
        \/ CreateContract(p) \/ CcSelectIds(p) \/ CcInsertPerson(p)
        \/ CcCheck(p) \/ CcInsertContract(p)
        \/ EditContract(p) \/ EcCheck(p) \/ EcUpdate(p)
        \/ DeleteContract(p) \/ DcSelect(p) \/ DcDelete(p) \/ DcOrphan(p)
        \/ DeleteUnit(p) \/ DuSelect(p) \/ DuDeleteContracts(p) \/ DuOrphans(p)
        \/ DuDeletePositions(p) \/ DuDeleteUnit(p)
        \/ DeletePosition(p) \/ DpSelect(p) \/ DpDeleteContracts(p)
        \/ DpOrphans(p) \/ DpDeletePosition(p)
        \/ EditPosition(p) \/ EpUpdatePosition(p) \/ EpUpdateContracts(p)

ConcSpec == ConcInit /\ [][ConcNext]_vars

\* One request thread on that store: the stores the transactional handlers
\* reach from it.
StoreNext ==
    \E p \in SeqProcs :
        \/ Begin(p) \/ Commit(p) \/ Rollback(p)
        \/ CreateContract(p) \/ CcSelectIds(p) \/ CcInsertPerson(p)
        \/ CcCheck(p) \/ CcInsertContract(p)
        \/ EditContract(p) \/ EcCheck(p) \/ EcUpdate(p)
        \/ DeleteContract(p) \/ DcSelect(p) \/ DcDelete(p) \/ DcOrphan(p)
        \/ DeleteUnit(p) \/ DuSelect(p) \/ DuDeleteContracts(p) \/ DuOrphans(p)
        \/ DuDeletePositions(p) \/ DuDeleteUnit(p)
        \/ DeletePosition(p) \/ DpSelect(p) \/ DpDeleteContracts(p)
        \/ DpOrphans(p) \/ DpDeletePosition(p)
        \/ EditPosition(p) \/ EpUpdatePosition(p) \/ EpUpdateContracts(p)

StoreSpec == ConcInit /\ [][StoreNext]_vars

\* ------------------------------------------- the allocator on its own
\* The people table holds any set of identifiers up to MaxPersonId; the
\* allocation loop of create_contract runs over it one iteration at a time
\* and the Person is inserted.
AllocInit ==
    /\ db = EmptyDb
    /\ lock = 0
    /\ pc = [p \in Procs |-> "idle"]
    /\ req = [p \in Procs |-> NoReq]
    /\ loc = [p \in Procs |-> NoLoc]
    /\ tx = [p \in Procs |-> EmptyDb]
    /\ pre = [p \in Procs |-> EmptyDb]
    /\ hist = [phase |-> "other", ids |-> <<>>, freed |-> 0]
    /\ alloc \in {[existing |-> S, ids |-> <<>>, i |-> 0, next_id |-> 0,
                   pc |-> "select"] : S \in SUBSET (1..MaxPersonId)}
    /\ form = FormIdle
    /\ rep = RepIdle
    /\ boot = "run"
    /\ trip = NoTrip

AllocFrame == UNCHANGED <<db, lock, pc, req, loc, tx, pre, hist, form, rep, boot, trip>>

\* existing_ids = [r["person_id"] for r in cur.fetchall()]; next_id = 1
AllocSelect ==
    /\ alloc.pc = "select"
    /\ alloc' = [alloc EXCEPT !.ids = SortedIds(alloc.existing), !.i = 1,
                              !.next_id = 1, !.pc = "scan"]
    /\ AllocFrame

\* for pid in existing_ids: one iteration
AllocScan ==
    /\ alloc.pc = "scan"
    /\ alloc.i <= Len(alloc.ids)
    /\ LET s == ScanStep(alloc.next_id, alloc.ids[alloc.i])
       IN alloc' = [alloc EXCEPT !.next_id = s.next_id,
                                 !.i = alloc.i + 1,
                                 !.pc = IF s.brk THEN "insert" ELSE "scan"]
    /\ AllocFrame

\* the list is exhausted
AllocScanEnd ==
    /\ alloc.pc = "scan"
    /\ alloc.i > Len(alloc.ids)
    /\ alloc' = [alloc EXCEPT !.pc = "insert"]
    /\ AllocFrame

\* INSERT INTO people (person_id, name) VALUES (next_id, ...)
AllocInsert ==
    /\ alloc.pc = "insert"
    /\ alloc' = IF alloc.next_id \in alloc.existing
                THEN [alloc EXCEPT !.pc = "integrity"]
                ELSE [alloc EXCEPT !.pc = "done"]
    /\ AllocFrame

AllocNext == AllocSelect \/ AllocScan \/ AllocScanEnd \/ AllocInsert

AllocSpec == AllocInit /\ [][AllocNext]_vars

\* ------------------------------------------- contract form validation
\* _validate_contract_payload on its own: a submitted form whose required
\* and numeric fields have passed, with start_date and end_date as
\* <<year, month, day>> of the submitted YYYY-MM-DD text, goes through the
\* date checks and, when accepted, is stored by the caller's INSERT/UPDATE.
FormDates ==
    {<<2024, 1, 1>>, <<2024, 3, 1>>, <<2024, 6, 1>>, <<2024, 12, 31>>,
     <<2025, 1, 1>>, <<2026, 3, 1>>, <<2024, 2, 30>>, <<2025, 13, 1>>}
FormYears == 0..MaxYears

IsLeap(y) == (y % 4 = 0 /\ y % 100 # 0) \/ y % 400 = 0

DaysInMonth(y, m) ==
    IF m = 2 THEN (IF IsLeap(y) THEN 29 ELSE 28)
    ELSE IF m \in {4, 6, 9, 11} THEN 30 ELSE 31

\* datetime.strptime(text, "%Y-%m-%d") succeeds
ParsesAsDate(t) ==
    /\ t[2] \in 1..12
    /\ t[3] \in 1..DaysInMonth(t[1], t[2])

\* end_dt < start_dt on datetime.date
DateBefore(a, b) ==
    \/ a[1] < b[1]
    \/ a[1] = b[1] /\ a[2] < b[2]
    \/ a[1] = b[1] /\ a[2] = b[2] /\ a[3] < b[3]

Max(a, b) == IF a >= b THEN a ELSE b

\* year_diff = end_dt.year - start_dt.year; expected_years = max(1, year_diff)
ExpectedYearsNoFloor(start, end) == end[1] - start[1]

ExpectedYears(start, end) == Max(1, end[1] - start[1])

NoStored == [start_date |-> <<0, 0, 0>>, end_date |-> <<0, 0, 0>>, years |-> 0]

ValidateInit ==
    /\ db = EmptyDb
    /\ lock = 0
    /\ pc = [p \in Procs |-> "idle"]
    /\ req = [p \in Procs |-> NoReq]
    /\ loc = [p \in Procs |-> NoLoc]
    /\ tx = [p \in Procs |-> EmptyDb]
    /\ pre = [p \in Procs |-> EmptyDb]
    /\ hist = [phase |-> "other", ids |-> <<>>, freed |-> 0]
    /\ alloc = AllocIdle
    /\ rep = RepIdle
    /\ boot = "run"
    /\ trip = NoTrip
    /\ form \in {[pc |-> "dates", start_date |-> s, end_date |-> e,
                  years |-> y, error |-> "none", stored |-> NoStored] :
                    s \in FormDates, e \in FormDates, y \in FormYears}

ValidateFrame ==
    UNCHANGED <<db, lock, pc, req, loc, tx, pre, hist, alloc, rep, boot, trip>>

Reject(msg) == form' = [form EXCEPT !.pc = "rejected", !.error = msg]

\* try: strptime(start_date), strptime(end_date)
\* except Exception: "Dates must be valid (YYYY-MM-DD)."
VcParseDates ==
    /\ form.pc = "dates"
    /\ IF ParsesAsDate(form.start_date) /\ ParsesAsDate(form.end_date)
       THEN form' = [form EXCEPT !.pc = "order"]
       ELSE Reject("dates")
    /\ ValidateFrame

\* if end_dt < start_dt: "End date cannot be before start date."
VcOrder ==
    /\ form.pc = "order"
    /\ IF DateBefore(form.end_date, form.start_date)
       THEN Reject("order")
       ELSE form' = [form EXCEPT !.pc = "years"]
    /\ ValidateFrame

\* if years != expected_years: "Years must equal ..."; else return payload
VcYears ==
    /\ form.pc = "years"
    /\ IF form.years # ExpectedYears(form.start_date, form.end_date)
       THEN Reject("years")
       ELSE form' = [form EXCEPT !.pc = "accepted"]
    /\ ValidateFrame

\* The caller's INSERT INTO contracts / UPDATE contracts with the payload.
VcStore ==
    /\ form.pc = "accepted"
    /\ form' = [form EXCEPT !.pc = "stored",
                            !.stored = [start_date |-> form.start_date,
                                        end_date |-> form.end_date,
                                        years |-> form.years]]
    /\ ValidateFrame

ValidateNext == VcParseDates \/ VcOrder \/ VcYears \/ VcStore

ValidateSpec == ValidateInit /\ [][ValidateNext]_vars

\* ------------------------------------------------------------------ report
\* A value that may be None: <<>> is None, <<v>> is the value v.
None == <<>>
Some(v) == <<v>>

\* A submitted form field: left empty, a text that is no number, or the
\* text of the number n.
Empty == [kind |-> "empty", n |-> 0]
Text == [kind |-> "text", n |-> 0]
Num(n) == [kind |-> "number", n |-> n]

\* int(raw) if raw else None, with ValueError turned into None; float
\* likewise.
ParseNumber(raw) == IF raw.kind = "number" THEN Some(raw.n) ELSE None

\* if value is not None: conditions.append(fragment); params.append(value)
AddConditionTruthy(r, fragment, value) ==
    IF value = None \/ value = Some(0) THEN r
    ELSE [r EXCEPT !.conditions = Append(@, fragment),
                   !.params = Append(@, value[1])]

AddCondition(r, fragment, value) ==
    IF value = None THEN r
    ELSE [r EXCEPT !.conditions = Append(@, fragment),
                   !.params = Append(@, value[1])]

\* " AND ".join(conditions), as the sequence of its pieces
RECURSIVE Join(_, _)
Join(conditions, sep) ==
    IF Len(conditions) <= 1 THEN conditions
    ELSE <<Head(conditions), sep>> \o Join(Tail(conditions), sep)

\* where_clause = " WHERE " + " AND ".join(conditions) if conditions else ""
WhereClause(conditions) ==
    IF conditions # <<>> THEN <<" WHERE ">> \o Join(conditions, " AND ")
    ELSE <<>>

\* One fragment of the WHERE clause on a contracts row, its ? bound to v.
HoldsStrict(fragment, v, row) ==
    CASE fragment = "c.unit_id = ?" -> row.unit_id = v
      [] fragment = "c.position_id = ?" -> row.position_id = v
      [] fragment = "c.salary_millions >= ?" -> row.salary > v
      [] fragment = "c.salary_millions <= ?" -> row.salary < v

Holds(fragment, v, row) ==
    CASE fragment = "c.unit_id = ?" -> row.unit_id = v
      [] fragment = "c.position_id = ?" -> row.position_id = v
      [] fragment = "c.salary_millions >= ?" -> row.salary >= v
      [] fragment = "c.salary_millions <= ?" -> row.salary <= v

\* The WHERE clause on a contracts row (no clause: every row).
Matches(row, conditions, params) ==
    \A i \in 1..Len(conditions) : Holds(conditions[i], params[i], row)

\* FROM contracts c JOIN people p JOIN positions pos JOIN units u WHERE ...
ListIds(d, conditions, params) ==
    {c \in DOMAIN d.contracts :
        /\ d.contracts[c].person_id \in DOMAIN d.people
        /\ d.contracts[c].position_id \in DOMAIN d.positions
        /\ d.contracts[c].unit_id \in DOMAIN d.units
        /\ Matches(d.contracts[c], conditions, params)}

\* contracts_query: the listed rows (their order, by person_id, is left out).
ListRows(d, conditions, params) ==
    {[contract_id |-> c,
      salary |-> d.contracts[c].salary,
      person_id |-> d.contracts[c].person_id,
      name |-> d.people[d.contracts[c].person_id],
      position_code |-> d.positions[d.contracts[c].position_id].code,
      unit_name |-> d.units[d.contracts[c].unit_id]] :
         c \in ListIds(d, conditions, params)}

\* FROM contracts c JOIN people p WHERE ...
StatsIdsJoinPositionsOnUnit(d, conditions, params) ==
    {c \in DOMAIN d.contracts :
        /\ d.contracts[c].person_id \in DOMAIN d.people
        /\ d.contracts[c].unit_id \in DOMAIN d.positions
        /\ Matches(d.contracts[c], conditions, params)}

StatsIds(d, conditions, params) ==
    {c \in DOMAIN d.contracts :
        /\ d.contracts[c].person_id \in DOMAIN d.people
        /\ Matches(d.contracts[c], conditions, params)}

RECURSIVE SumSalary(_, _)
SumSalary(d, S) ==
    IF S = {} THEN 0
    ELSE LET c == CHOOSE x \in S : TRUE
         IN d.contracts[c].salary + SumSalary(d, S \ {c})

\* stats_query: COUNT(*) and AVG(c.salary_millions); the average is the
\* pair <<sum, count>>, None over no row.
StatsRowDivides(d, conditions, params) ==
    LET S == StatsIds(d, conditions, params)
    IN [count_contracts |-> Cardinality(S),
        avg_salary |-> <<SumSalary(d, S), Cardinality(S)>>]

StatsRow(d, conditions, params) ==
    LET S == StatsIds(d, conditions, params)
    IN [count_contracts |-> Cardinality(S),
        avg_salary |-> IF S = {} THEN None
                       ELSE <<SumSalary(d, S), Cardinality(S)>>]

NoStats == [count_contracts |-> 0, avg_salary |-> None]

RawIds == {Empty, Text, Num(1), Num(2)}
RawMinSalaries == {Empty, Text, Num(0), Num(5)}
RawMaxSalaries == {Empty, Text, Num(5), Num(10)}

\* The request as report() finds it.
ReportRequest(method, u, q, lo, hi) ==
    [pc |-> "parse", method |-> method,
     form |-> [unit_id |-> u, position_id |-> q,
               min_salary |-> lo, max_salary |-> hi],
     unit_id |-> None, position_id |-> None,
     min_salary |-> None, max_salary |-> None,
     conditions |-> <<>>, params |-> <<>>, where_clause |-> <<>>,
     rows |-> {}, stats |-> NoStats, summary |-> "none"]

AllRequests ==
    {ReportRequest("GET", Empty, Empty, Empty, Empty)}
    \cup {ReportRequest("POST", u, q, lo, hi) :
             u \in RawIds, q \in RawIds,
             lo \in RawMinSalaries, hi \in RawMaxSalaries}

ReportFrame ==
    UNCHANGED <<db, lock, pc, req, loc, tx, pre, hist, alloc, form, boot, trip>>

\* if request.method == "POST": read and parse the four fields
RpParse ==
    /\ rep.pc = "parse"
    /\ rep' = IF rep.method = "POST"
              THEN [rep EXCEPT !.pc = "unit_id",
                               !.unit_id = ParseNumber(rep.form.unit_id),
                               !.position_id = ParseNumber(rep.form.position_id),
                               !.min_salary = ParseNumber(rep.form.min_salary),
                               !.max_salary = ParseNumber(rep.form.max_salary)]
              ELSE [rep EXCEPT !.pc = "unit_id"]
    /\ ReportFrame

\* if unit_id is not None: ...
RpUnit ==
    /\ rep.pc = "unit_id"
    /\ rep' = [AddCondition(rep, "c.unit_id = ?", rep.unit_id)
                  EXCEPT !.pc = "position_id"]
    /\ ReportFrame

\* if position_id is not None: ...
RpPosition ==
    /\ rep.pc = "position_id"
    /\ rep' = [AddCondition(rep, "c.position_id = ?", rep.position_id)
                  EXCEPT !.pc = "min_salary"]
    /\ ReportFrame

\* if min_salary is not None: ...
RpMin ==
    /\ rep.pc = "min_salary"
    /\ rep' = [AddCondition(rep, "c.salary_millions >= ?", rep.min_salary)
                  EXCEPT !.pc = "max_salary"]
    /\ ReportFrame

\* if max_salary is not None: ...
RpMax ==
    /\ rep.pc = "max_salary"
    /\ rep' = [AddCondition(rep, "c.salary_millions <= ?", rep.max_salary)
                  EXCEPT !.pc = "where"]
    /\ ReportFrame

RpWhere ==
    /\ rep.pc = "where"
    /\ rep' = [rep EXCEPT !.pc = "list",
                          !.where_clause = WhereClause(rep.conditions)]
    /\ ReportFrame

\* contracts = query_db(contracts_query, params)
RpList ==
    /\ rep.pc = "list"
    /\ rep' = [rep EXCEPT !.pc = "stats",
                          !.rows = ListRows(query_db, rep.conditions, rep.params)]
    /\ ReportFrame

\* stats = query_db(stats_query, params, one=True)
RpStats ==
    /\ rep.pc = "stats"
    /\ rep' = [rep EXCEPT !.pc = "render",
                          !.stats = StatsRow(query_db, rep.conditions, rep.params)]
    /\ ReportFrame

\* REPORT_TEMPLATE, Summary card: the figures are formatted with '%.2f' when
\* count_contracts > 0, which raises on None; otherwise "No contracts match
\* the filters."
RpRender ==
    /\ rep.pc = "render"
    /\ rep' = IF rep.stats.count_contracts > 0
              THEN IF rep.stats.avg_salary = None
                   THEN [rep EXCEPT !.pc = "error"]
                   ELSE [rep EXCEPT !.pc = "done", !.summary = "figures"]
              ELSE [rep EXCEPT !.pc = "done", !.summary = "no data"]
    /\ ReportFrame

Report == RpParse \/ RpUnit \/ RpPosition \/ RpMin \/ RpMax \/ RpWhere
          \/ RpList \/ RpStats \/ RpRender

\* The report on a store nobody writes to, for every request.
FilterInit ==
    /\ db = ConcDb
    /\ lock = 0
    /\ pc = [p \in Procs |-> "idle"]
    /\ req = [p \in Procs |-> NoReq]
    /\ loc = [p \in Procs |-> NoLoc]
    /\ tx = [p \in Procs |-> EmptyDb]
    /\ pre = [p \in Procs |-> EmptyDb]
    /\ hist = [phase |-> "freed", ids |-> <<>>, freed |-> 1]
    /\ alloc = AllocIdle
    /\ form = FormIdle
    /\ rep \in AllRequests
    /\ boot = "run"
    /\ trip = NoTrip

FilterSpec == FilterInit /\ [][Report]_vars

\* The report next to one request thread that creates and deletes
\* Contracts.
ReportRequests ==
    {ReportRequest("GET", Empty, Empty, Empty, Empty),
     ReportRequest("POST", Num(1), Empty, Empty, Empty),
     ReportRequest("POST", Empty, Text, Num(5), Num(10)),
     ReportRequest("POST", Num(2), Num(2), Num(10), Num(5))}

\* The salaries that thread submits: below, at and above the bounds.
ReportSalaries == {3, 5, 10, 12}

ReportInit ==
    /\ db = ConcDb
    /\ lock = 0
    /\ pc = [p \in Procs |-> "idle"]
    /\ req = [p \in Procs |-> NoReq]
    /\ loc = [p \in Procs |-> NoLoc]
    /\ tx = [p \in Procs |-> EmptyDb]
    /\ pre = [p \in Procs |-> EmptyDb]
    /\ hist = [phase |-> "freed", ids |-> <<>>, freed |-> 1]
    /\ alloc = AllocIdle
    /\ form = FormIdle
    /\ rep \in ReportRequests
    /\ boot = "run"
    /\ trip = NoTrip

ReportNext ==
    \/ Report
    \/ \E p \in SeqProcs :
          \/ Begin(p) \/ Commit(p) \/ Rollback(p)
          \/ CreateContract(p) \/ CcSelectIds(p) \/ CcInsertPerson(p)
          \/ CcCheck(p) \/ CcInsertContractFrom(p, ReportSalaries)
          \/ DeleteContract(p) \/ DcSelect(p) \/ DcDelete(p) \/ DcOrphan(p)

ReportSpec == ReportInit /\ [][ReportNext]_vars

\* ------------------------------------------------------------- scheduling
\* Two request threads that create and delete Contracts on the prebuilt
\* store, with the threads scheduled fairly: a request that has been
\* entered keeps being run (its next statement is eventually executed if it
\* stays executable).  No fairness is put on the arrival of requests nor on
\* BEGIN giving up its wait.
LiveStep(p) ==
    \/ Begin(p) \/ Commit(p) \/ Rollback(p)
    \/ CcSelectIds(p) \/ CcInsertPerson(p) \/ CcCheck(p) \/ CcInsertContract(p)
    \/ DcSelect(p) \/ DcDelete(p) \/ DcOrphan(p)

LiveNext ==
    \E p \in Procs :
        \/ LiveStep(p)
        \/ BeginBusy(p)
        \/ CreateContract(p)
        \/ DeleteContract(p)

LiveSpec ==
    ConcInit /\ [][LiveNext]_vars /\ \A p \in Procs : WF_vars(LiveStep(p))

\* ------------------------------------------------- importing the module
\* The tables of the store file.
TableNames == {"people", "units", "positions", "contracts"}

\* CREATE TABLE after DROP TABLE: the table is created empty every time.
CreateTableRecreates(d, existing, t) == [d EXCEPT ![t] = EmptyMap]

\* CREATE TABLE IF NOT EXISTS t: a table that exists is left as it is, a
\* missing one is created empty.
CreateTableIfNotExists(d, existing, t) ==
    IF t \in existing THEN d ELSE [d EXCEPT ![t] = EmptyMap]

\* init_db on a file that holds the tables `existing`: the four CREATE
\* TABLE statements in the order of the code.  The CREATE INDEX IF NOT
\* EXISTS statements change no row and sqlite_sequence is not written.
init_db(d, existing) ==
    LET d1 == CreateTableIfNotExists(d, existing, "people")
        d2 == CreateTableIfNotExists(d1, existing, "units")
        d3 == CreateTableIfNotExists(d2, existing, "positions")
    IN CreateTableIfNotExists(d3, existing, "contracts")

\* A worker process is started and imports the module, whatever the
\* requests served by another worker are doing.
ImportModule ==
    /\ boot = "run"
    /\ trip = NoTrip
    /\ boot' = "init_db"
    /\ UNCHANGED <<db, lock, pc, req, loc, tx, pre, hist, alloc, form, rep, trip>>

\* The module body calls init_db() on the store, which holds the four
\* tables since the first import.
ImportInitDb ==
    /\ boot = "init_db"
    /\ db' = init_db(db, TableNames)
    /\ boot' = "imported"
    /\ UNCHANGED <<lock, pc, req, loc, tx, pre, hist, alloc, form, rep, trip>>

\* The import is over and the worker serves requests.
ImportDone ==
    /\ boot = "imported"
    /\ boot' = "run"
    /\ UNCHANGED <<db, lock, pc, req, loc, tx, pre, hist, alloc, form, rep, trip>>

ImportNext == StoreNext \/ ImportModule \/ ImportInitDb \/ ImportDone

ImportSpec == ConcInit /\ [][ImportNext]_vars

\* ------------------------------------- create_contract and its undoing
\* A store the sequential operations reach: the store of the concurrent
\* requests with one Contract of Person 1 created on it.
TripDb ==
    [ConcDb EXCEPT
        !.people = (1 :> "Ann"),
        !.contracts = (1 :> [person_id |-> 1, position_id |-> 1,
                             unit_id |-> 1, salary |-> 5])]

TripInit ==
    /\ db = TripDb
    /\ lock = 0
    /\ pc = [p \in Procs |-> "idle"]
    /\ req = [p \in Procs |-> NoReq]
    /\ loc = [p \in Procs |-> NoLoc]
    /\ tx = [p \in Procs |-> EmptyDb]
    /\ pre = [p \in Procs |-> EmptyDb]
    /\ hist = [phase |-> "other", ids |-> <<>>, freed |-> 0]
    /\ alloc = AllocIdle
    /\ form = FormIdle
    /\ rep = RepIdle
    /\ boot = "run"
    /\ trip = [NoTrip EXCEPT !.phase = "watch"]

\* One request thread on that store, with the history of create_contract
\* kept.
TripSpec == TripInit /\ [][StoreNext]_vars

\* ------------------------------------------- without edit_contract
\* Two request threads that run every transactional handler but
\* edit_contract, the only one that gives a Contract another Person.
KeepPersonNext ==
    \E p \in Procs :
        \/ Begin(p) \/ BeginBusy(p) \/ Commit(p) \/ Rollback(p)
        \/ CreateContract(p) \/ CcSelectIds(p) \/ CcInsertPerson(p)
        \/ CcCheck(p) \/ CcInsertContract(p)
        \/ DeleteContract(p) \/ DcSelect(p) \/ DcDelete(p) \/ DcOrphan(p)
        \/ DeleteUnit(p) \/ DuSelect(p) \/ DuDeleteContracts(p) \/ DuOrphans(p)
        \/ DuDeletePositions(p) \/ DuDeleteUnit(p)
        \/ DeletePosition(p) \/ DpSelect(p) \/ DpDeleteContracts(p)
        \/ DpOrphans(p) \/ DpDeletePosition(p)
        \/ EditPosition(p) \/ EpUpdatePosition(p) \/ EpUpdateContracts(p)

KeepPersonSpec == ConcInit /\ [][KeepPersonNext]_vars

\* ================================================================ claims

\* C1: in every committed store, each Contract's unit_id is the unit_id of
\* the Position the Contract references.
C1_ContractUnitMatchesPosition ==
    \A c \in DOMAIN db.contracts :
        /\ db.contracts[c].position_id \in DOMAIN db.positions
        /\ db.positions[db.contracts[c].position_id].unit_id = db.contracts[c].unit_id

\* C1 witness: edit_position is about to commit the move of a Position
\* that Contracts reference to another Unit.
C1_Witness ==
    \E p \in SeqProcs :
        /\ req[p].op = "edit_position" /\ pc[p] = "commit"
        /\ tx[p].positions[req[p].position_id].unit_id
              # pre[p].positions[req[p].position_id].unit_id
        /\ ContractsOfPosition(tx[p], req[p].position_id) # {}

\* C2 (as claimed): no Person row of the committed store is referenced by
\* zero Contracts.
C2_NoPersonWithoutContract ==
    \A pid \in DOMAIN db.people : ContractsOfPerson(db, pid) # {}

\* The least positive integer outside S.
IsLowestUnused(n, S) ==
    /\ n >= 1
    /\ n \notin S
    /\ \A m \in 1..(n - 1) : m \in S

\* C3: the identifier create_contract picks and inserts is the smallest
\* positive integer that no existing Person row has.
C3_LowestUnusedIdentifier ==
    /\ alloc.pc \in {"insert", "done"} => IsLowestUnused(alloc.next_id, alloc.existing)
    /\ alloc.pc # "integrity"

\* C3 witness: the allocator has filled a gap inside the existing
\* identifiers.
C3_Witness ==
    /\ alloc.pc = "done"
    /\ alloc.existing = {1, 2, 4, 6}
    /\ alloc.next_id = 3

\* C4: from the empty store, creations without a deletion in between hand
\* out 1, 2, ..., N in order; once delete_contract has removed Person k
\* after that, the next create_contract hands out k.
C4_SequentialThenReuse ==
    /\ hist.phase = "creating" =>
          hist.ids = [i \in 1..Len(hist.ids) |-> i]
    /\ \A p \in SeqProcs :
          (pc[p] = "commit" /\ req[p].op = "create_contract" /\ hist.phase = "freed")
              => loc[p].next_id = hist.freed

\* C4 witness: identifiers 1 and 2 were handed out, Person 1 was removed by
\* delete_contract, and the next creation is about to commit.
C4_Witness ==
    \E p \in SeqProcs :
        /\ pc[p] = "commit"
        /\ req[p].op = "create_contract"
        /\ hist.phase = "freed"
        /\ hist.freed = 1
        /\ DOMAIN pre[p].people = {2}

\* A request that is inside its transaction: BEGIN has succeeded, COMMIT or
\* ROLLBACK has not run yet.
InTx(p) == pc[p] \notin {"idle", "begin"}

\* A create_contract request that has picked its identifier.
HasPickedId(p) ==
    /\ req[p].op = "create_contract"
    /\ pc[p] \in {"cc_insert_person", "cc_check", "cc_insert_contract",
                  "commit", "rollback"}

\* C5: two create_contract requests in flight never hold the same picked
\* identifier, and an identifier about to be committed is not one a
\* committed Person already has.
C5_NoDuplicateIdentifier ==
    /\ \A p, q \in Procs :
          (p # q /\ HasPickedId(p) /\ HasPickedId(q))
              => loc[p].next_id # loc[q].next_id
    /\ \A p \in Procs :
          (HasPickedId(p) /\ pc[p] = "commit")
              => loc[p].next_id \notin DOMAIN db.people

\* C5 witness: one create_contract has picked its identifier under the lock
\* while another create_contract waits at BEGIN IMMEDIATE.
C5_Witness ==
    \E p, q \in Procs :
        /\ p # q
        /\ req[p].op = "create_contract" /\ pc[p] = "cc_insert_person"
        /\ req[q].op = "create_contract" /\ pc[q] = "begin"

\* C6: a unit of work that raised leaves the store as it was when the unit
\* of work began; one that returned has all its writes committed in one
\* step.
C6_AllOrNothing ==
    [][\A p \in SeqProcs :
          /\ (pc[p] = "rollback" /\ pc'[p] = "idle") => (db' = pre[p] /\ db = pre[p])
          /\ (pc[p] = "commit" /\ pc'[p] = "idle") => (db' = tx[p] /\ db = pre[p])
          /\ (InTx(p) /\ pc'[p] # "idle") => db' = db]_vars

\* C6 witness: the unit of work has raised after a write (create_contract
\* inserted the Person, then the position/unit check failed).
C6_Witness ==
    \E p \in SeqProcs :
        /\ pc[p] = "rollback"
        /\ DOMAIN tx[p].people # DOMAIN pre[p].people

\* C7: at most one request is inside a transaction, and it is the holder
\* of the write lock.
C7_OneWriter ==
    /\ Cardinality({p \in Procs : InTx(p)}) <= 1
    /\ \A p \in Procs : InTx(p) => lock = p

\* C7 witness: one unit of work has executed a write while a second request
\* waits at BEGIN IMMEDIATE.
C7_Witness ==
    \E p, q \in Procs :
        /\ p # q
        /\ InTx(p) /\ tx[p] # pre[p]
        /\ pc[q] = "begin"

\* The handlers whose unit of work is a multi-statement cascade.
Cascades ==
    {"delete_unit", "delete_position", "delete_contract", "edit_position",
     "create_contract"}

\* C8: while a cascade is in progress a read outside the transaction gets
\* the store as it was before the unit of work, and the store changes to
\* the cascade's complete result in the one step of its commit.
C8_NoPartialCascadeVisible ==
    [][\A p \in Procs :
          (InTx(p) /\ req[p].op \in Cascades) =>
              /\ query_db = pre[p]
              /\ \/ db' = pre[p]
                 \/ pc[p] = "commit" /\ db' = tx[p]]_vars

\* C8 witness: delete_unit has deleted the Unit's Contracts but not yet its
\* Positions, and another request thread is free to read.
C8_Witness ==
    \E p, q \in Procs :
        /\ p # q
        /\ req[p].op = "delete_unit" /\ pc[p] = "du_delete_positions"
        /\ DOMAIN tx[p].contracts # DOMAIN pre[p].contracts
        /\ pc[q] = "idle"

\* C9 (as claimed): the Contract row an update_contract request has read is
\* the row that is current when the request writes, so its write replaces
\* no update committed after its read.
C9_NoLostUpdate ==
    \A p \in Procs :
        (/\ req[p].op = "edit_contract"
         /\ pc[p] = "ec_update"
         /\ req[p].contract_id \in DOMAIN tx[p].contracts)
            => loc[p].seen = tx[p].contracts[req[p].contract_id]

\* What delete_contract(c) is to leave of store d.
AfterDeleteContract(d, c) ==
    LET pid  == d.contracts[c].person_id
        rest == Drop(d.contracts, {c})
    IN [d EXCEPT !.contracts = rest,
                 !.people = IF \E k \in DOMAIN rest : rest[k].person_id = pid
                            THEN d.people
                            ELSE Drop(d.people, {pid})]

\* C10: delete_contract of an existing Contract commits, removes that
\* Contract row, removes its Person exactly when no other Contract
\* references that Person, and changes nothing else.
C10_DeleteContractExact ==
    [][\A p \in SeqProcs :
          (/\ req[p].op = "delete_contract"
           /\ req[p].contract_id \in DOMAIN db.contracts
           /\ InTx(p) /\ pc'[p] = "idle")
              => db' = AfterDeleteContract(db, req[p].contract_id)]_vars

\* C10 witness: delete_contract is about to commit the removal of a Contract
\* whose Person keeps another Contract.
C10_Witness ==
    \E p \in SeqProcs :
        /\ req[p].op = "delete_contract" /\ pc[p] = "commit"
        /\ req[p].contract_id \in DOMAIN pre[p].contracts
        /\ ContractsOfPerson(tx[p], pre[p].contracts[req[p].contract_id].person_id) # {}

\* The store the claims expect after delete_unit(u) on store d: the
\* Contracts of u, the Positions of u and u itself are gone, and so is every
\* Person who had a Contract in u and has none outside it.
AfterDeleteUnit(d, u) ==
    LET gone    == ContractsOfUnit(d, u)
        rest    == Drop(d.contracts, gone)
        holders == {d.contracts[c].person_id : c \in gone}
        lost    == {pid \in holders :
                       ~ \E k \in DOMAIN rest : rest[k].person_id = pid}
    IN [d EXCEPT !.contracts = rest,
                 !.people = Drop(d.people, lost),
                 !.positions = Drop(d.positions, PositionsOfUnit(d, u)),
                 !.units = Drop(d.units, {u})]

\* C11: delete_unit(u) commits and removes every Contract whose unit is u,
\* every Position of u, the Unit u and exactly the Persons who held a
\* Contract in u and none outside it; every Person with a Contract outside
\* u, every Contract outside u and every other Position and Unit is left
\* as it was.
C11_DeleteUnitExact ==
    [][\A p \in SeqProcs :
          (/\ req[p].op = "delete_unit"
           /\ InTx(p) /\ pc[p] # "du_select" /\ pc'[p] = "idle")
              => db' = AfterDeleteUnit(db, req[p].unit_id)]_vars

\* C11 witness: delete_unit is about to commit a cascade that removes one
\* Person and keeps another who had a Contract in the Unit and one outside.
C11_Witness ==
    \E p \in SeqProcs :
        /\ req[p].op = "delete_unit" /\ pc[p] = "commit"
        /\ req[p].unit_id \in DOMAIN pre[p].units
        /\ DOMAIN pre[p].people \ DOMAIN tx[p].people # {}
        /\ \E c \in ContractsOfUnit(pre[p], req[p].unit_id) :
              pre[p].contracts[c].person_id \in DOMAIN tx[p].people

\* The store the claims expect after delete_position(q) on store d: the
\* Contracts referencing q and q itself are gone, and so is every Person
\* those Contracts referenced who is left with no Contract.
AfterDeletePosition(d, q) ==
    LET gone    == ContractsOfPosition(d, q)
        rest    == Drop(d.contracts, gone)
        holders == {d.contracts[c].person_id : c \in gone}
        lost    == {pid \in holders :
                       ~ \E k \in DOMAIN rest : rest[k].person_id = pid}
    IN [d EXCEPT !.contracts = rest,
                 !.people = Drop(d.people, lost),
                 !.positions = Drop(d.positions, {q})]

\* C12: delete_position(q) commits and removes every Contract referencing
\* q, the Position q and exactly the Persons whom the removal leaves with
\* zero Contracts; the Unit that owned q, every other Position, and every
\* Contract and Person not referencing q are left as they were.
C12_DeletePositionExact ==
    [][\A p \in SeqProcs :
          (/\ req[p].op = "delete_position"
           /\ InTx(p) /\ pc[p] # "dp_select" /\ pc'[p] = "idle")
              => /\ db' = AfterDeletePosition(db, req[p].position_id)
                 /\ db'.units = db.units]_vars

\* C12 witness: delete_position is about to commit the removal of a
\* Position with a Contract whose Person is removed, while a Contract on
\* another Position of the same Unit stays.
C12_Witness ==
    \E p \in SeqProcs :
        /\ req[p].op = "delete_position" /\ pc[p] = "commit"
        /\ req[p].position_id \in DOMAIN pre[p].positions
        /\ DOMAIN pre[p].people \ DOMAIN tx[p].people # {}
        /\ ContractsOfUnit(tx[p],
               pre[p].positions[req[p].position_id].unit_id) # {}

\* C13: when edit_position moves Position q to Unit u and commits, q's
\* unit_id is u and every Contract referencing q has unit_id u; and no step
\* changes a Position's unit in the committed store while leaving a
\* Contract that references the Position with another unit_id.
C13_ReassignCarriesContracts ==
    [][/\ \A p \in SeqProcs :
            (req[p].op = "edit_position" /\ pc[p] = "commit" /\ pc'[p] = "idle")
               => /\ req[p].position_id \in DOMAIN db'.positions
                  /\ db'.positions[req[p].position_id].unit_id = req[p].unit_id
                  /\ \A c \in ContractsOfPosition(db', req[p].position_id) :
                        db'.contracts[c].unit_id = req[p].unit_id
       /\ \A q \in DOMAIN db.positions \cap DOMAIN db'.positions :
            db'.positions[q].unit_id # db.positions[q].unit_id
               => \A c \in ContractsOfPosition(db', q) :
                     db'.contracts[c].unit_id = db'.positions[q].unit_id]_vars

\* C13 witness: edit_position is about to commit the move of a Position
\* that two Contracts reference to another Unit.
C13_Witness ==
    \E p \in SeqProcs :
        /\ req[p].op = "edit_position" /\ pc[p] = "commit"
        /\ pre[p].positions[req[p].position_id].unit_id # req[p].unit_id
        /\ Cardinality(ContractsOfPosition(tx[p], req[p].position_id)) >= 2

\* Position q is missing from store d or belongs to a Unit other than u.
Mismatch(d, q, u) ==
    q \notin DOMAIN d.positions \/ d.positions[q].unit_id # u

\* C14: create_contract whose Position is missing or belongs to another
\* Unit than the submitted one leaves its unit of work with the
\* business-rule error, and when that unit of work ends nothing is
\* committed: the store is the one from before the request, so neither the
\* Person row inserted before the check nor a Contract row exists, and the
\* identifier the request picked is the one the next create_contract picks.
C14_MismatchCommitsNothing ==
    [][\A p \in SeqProcs :
          /\ (/\ req[p].op = "create_contract" /\ pc[p] = "cc_check"
              /\ Mismatch(tx[p], req'[p].position_id, req'[p].unit_id))
                 => /\ pc'[p] = "rollback"
                    /\ loc'[p].err = "business"
                    /\ Flash("create_contract", loc'[p].err) = "error"
          /\ (/\ req[p].op = "create_contract" /\ pc[p] = "rollback"
              /\ loc[p].err = "business" /\ pc'[p] = "idle")
                 => /\ db' = pre[p]
                    /\ loc[p].next_id \notin DOMAIN db'.people
                    /\ LowestUnusedId(db') = loc[p].next_id
                    /\ DOMAIN db'.contracts = DOMAIN pre[p].contracts]_vars

\* C14 witness: create_contract has inserted its Person row, failed the
\* position/unit check and is about to roll back.
C14_Witness ==
    \E p \in SeqProcs :
        /\ req[p].op = "create_contract" /\ pc[p] = "rollback"
        /\ loc[p].err = "business"
        /\ loc[p].next_id \in DOMAIN tx[p].people
        /\ loc[p].next_id \notin DOMAIN pre[p].people
        /\ req[p].position_id \in DOMAIN tx[p].positions

\* C15: edit_contract whose Position is missing or belongs to another Unit
\* than the submitted one leaves its unit of work with the business-rule
\* error before any write, and the stored Contract keeps all its values.
C15_EditMismatchWritesNothing ==
    [][\A p \in SeqProcs :
          /\ (/\ req[p].op = "edit_contract" /\ pc[p] = "ec_check"
              /\ Mismatch(tx[p], req'[p].position_id, req'[p].unit_id))
                 => /\ pc'[p] = "rollback"
                    /\ loc'[p].err = "business"
                    /\ Flash("edit_contract", loc'[p].err) = "error"
                    /\ tx[p] = pre[p] /\ tx'[p] = pre[p]
          /\ (/\ req[p].op = "edit_contract" /\ pc[p] = "rollback"
              /\ loc[p].err = "business" /\ pc'[p] = "idle")
                 => /\ db' = db
                    /\ db'.contracts[req[p].contract_id] = loc[p].seen]_vars

\* C15 witness: edit_contract of a stored Contract has failed the
\* position/unit check on an existing Position and is about to roll back.
C15_Witness ==
    \E p \in SeqProcs :
        /\ req[p].op = "edit_contract" /\ pc[p] = "rollback"
        /\ loc[p].err = "business"
        /\ req[p].contract_id \in DOMAIN db.contracts
        /\ req[p].position_id \in DOMAIN tx[p].positions
        /\ tx[p].positions[req[p].position_id].unit_id # req[p].unit_id

\* C16: every Contract stored from a validated form has end_date on or
\* after start_date and years equal to the difference of the calendar
\* years, floored at 1; a form with end before start or with another
\* years value is rejected and nothing of it is stored.  2024-03-01 to
\* 2026-03-01 is accepted with 2 years only, 2024-01-01 to 2024-06-01 with
\* 1 year only.
C16_StoredDatesAndYears ==
    LET s == form.start_date
        e == form.end_date
        diff == e[1] - s[1]
        wanted == IF diff >= 1 THEN diff ELSE 1
        after == e[1] > s[1]
                 \/ (e[1] = s[1] /\ e[2] > s[2])
                 \/ (e[1] = s[1] /\ e[2] = s[2] /\ e[3] >= s[3])
    IN /\ form.pc = "stored"
            => /\ form.stored = [start_date |-> s, end_date |-> e,
                                 years |-> form.years]
               /\ after /\ form.years = wanted
       /\ form.pc = "accepted" => after /\ form.years = wanted
       /\ (form.pc \in {"accepted", "stored", "rejected"}
              /\ (~after \/ form.years # wanted))
            => form.pc = "rejected" /\ form.stored = NoStored
       /\ (form.pc \in {"accepted", "stored"}
              /\ s = <<2024, 3, 1>> /\ e = <<2026, 3, 1>>) => form.years = 2
       /\ (form.pc \in {"accepted", "stored"}
              /\ s = <<2024, 1, 1>> /\ e = <<2024, 6, 1>>) => form.years = 1

\* C16 witness: the form 2024-01-01 to 2024-06-01 with 1 year is stored.
C16_Witness ==
    /\ form.pc = "stored"
    /\ form.stored = [start_date |-> <<2024, 1, 1>>,
                      end_date |-> <<2024, 6, 1>>, years |-> 1]

\* Name n is the name of a Unit of store d other than u; code k is the code
\* of a Position of store d other than q.
NameTaken(d, n, u) == \E v \in DOMAIN d.units \ {u} : d.units[v] = n
CodeTaken(d, k, q) == \E r \in DOMAIN d.positions \ {q} : d.positions[r].code = k

\* C17: in every committed store no two Units share a name and no two
\* Positions share a code; adding a Unit under a taken name, renaming a
\* Unit to a taken name and adding a Position under a taken code raise the
\* integrity error and leave the store as it was; edit_position to a taken
\* code ends in a rollback with the integrity error, with no Position row
\* and no Contract's unit_id changed.
C17_UniqueNamesAndCodes ==
    /\ \A u, v \in DOMAIN db.units : u # v => db.units[u] # db.units[v]
    /\ \A q, r \in DOMAIN db.positions :
          q # r => db.positions[q].code # db.positions[r].code
    /\ \A n \in UnitNames :
          NameTaken(db, n, 0) => InsertUnit(db, n) = Fail("integrity", db)
    /\ \A u \in DOMAIN db.units, n \in UnitNames :
          NameTaken(db, n, u) => UpdateUnit(db, u, n) = Fail("integrity", db)
    /\ \A k \in Codes, u \in UnitIds :
          CodeTaken(db, k, 0) => InsertPosition(db, k, u) = Fail("integrity", db)
    /\ \A p \in SeqProcs :
          (/\ req[p].op = "edit_position"
           /\ pc[p] \in {"ep_update_contracts", "commit", "rollback"}
           /\ CodeTaken(pre[p], req[p].code, req[p].position_id))
              => /\ pc[p] = "rollback"
                 /\ loc[p].err = "integrity"
                 /\ Flash("edit_position", loc[p].err) = "error"
                 /\ tx[p] = pre[p]
                 /\ db = pre[p]

\* C17 witness: edit_position to the code of another Position, on a
\* Position that Contracts reference and towards an existing Unit, has
\* raised and is about to roll back.
C17_Witness ==
    \E p \in SeqProcs :
        /\ req[p].op = "edit_position" /\ pc[p] = "rollback"
        /\ CodeTaken(pre[p], req[p].code, req[p].position_id)
        /\ req[p].unit_id \in DOMAIN pre[p].units
        /\ ContractsOfPosition(pre[p], req[p].position_id) # {}

\* The fixed order of the four filters and their fragments.
Fragments ==
    <<"c.unit_id = ?", "c.position_id = ?",
      "c.salary_millions >= ?", "c.salary_millions <= ?">>
FilterValue(r, i) ==
    CASE i = 1 -> r.unit_id
      [] i = 2 -> r.position_id
      [] i = 3 -> r.min_salary
      [] i = 4 -> r.max_salary
PresentFilters(r) == {i \in 1..4 : FilterValue(r, i) # None}
\* The k-th present filter in the fixed order.
NthPresent(r, k) ==
    CHOOSE i \in PresentFilters(r) :
        Cardinality({j \in PresentFilters(r) : j <= i}) = k

\* C18: whichever of the four filters are present, the predicate holds one
\* fragment per present filter, in the order unit, position, minimum,
\* maximum, joined by AND, and the parameter list holds the present values
\* in the same order; with no filter there is no WHERE clause and no
\* parameter.
C18_PredicateFromPresentFilters ==
    rep.pc \in {"list", "stats", "render"} =>
        LET n == Cardinality(PresentFilters(rep))
        IN /\ Len(rep.conditions) = n
           /\ Len(rep.params) = n
           /\ \A k \in 1..n :
                 /\ rep.conditions[k] = Fragments[NthPresent(rep, k)]
                 /\ rep.params[k] = FilterValue(rep, NthPresent(rep, k))[1]
           /\ n = 0 => rep.where_clause = <<>>
           /\ n > 0 =>
                 /\ Len(rep.where_clause) = 2 * n
                 /\ rep.where_clause[1] = " WHERE "
                 /\ \A k \in 1..n : rep.where_clause[2 * k] = rep.conditions[k]
                 /\ \A k \in 1..(n - 1) : rep.where_clause[2 * k + 1] = " AND "

\* C18 witness: a report with the unit and both salary bounds given, the
\* minimum being 0, and no position has built its predicate.
C18_Witness ==
    /\ rep.pc = "list"
    /\ rep.unit_id = Some(2) /\ rep.position_id = None
    /\ rep.min_salary = Some(0) /\ rep.max_salary = Some(10)
    /\ rep.params = <<2, 0, 10>>

\* The parsed filter combinations a report is asked for.
FilterCombinations ==
    [unit_id : {None, Some(1), Some(2)},
     position_id : {None, Some(1), Some(2)},
     min_salary : {None, Some(5), Some(6)},
     max_salary : {None, Some(4), Some(5)}]

\* The conditions and parameters report() builds from parsed filters f.
Built(f) ==
    AddCondition(
      AddCondition(
        AddCondition(
          AddCondition([conditions |-> <<>>, params |-> <<>>],
                       "c.unit_id = ?", f.unit_id),
          "c.position_id = ?", f.position_id),
        "c.salary_millions >= ?", f.min_salary),
      "c.salary_millions <= ?", f.max_salary)

RECURSIVE SumOfRows(_)
SumOfRows(rows) ==
    IF rows = {} THEN 0
    ELSE LET r == CHOOSE x \in rows : TRUE
         IN r.salary + SumOfRows(rows \ {r})

\* C19: on every committed store and for every filter combination, the
\* statistics query ranges over exactly the Contracts the listing query
\* returns: its count is the number of listed rows and its average is the
\* average over the listed rows, although the listing also joins positions
\* and units.
C19_StatsOverListedRows ==
    \A f \in FilterCombinations :
        LET b     == Built(f)
            rows  == ListRows(db, b.conditions, b.params)
            stats == StatsRow(db, b.conditions, b.params)
        IN /\ StatsIds(db, b.conditions, b.params)
                 = {r.contract_id : r \in rows}
           /\ stats.count_contracts = Cardinality(rows)
           /\ stats.avg_salary = IF rows = {} THEN None
                                 ELSE <<SumOfRows(rows), Cardinality(rows)>>

\* C19 witness: a committed store with Contracts in both Units, one on a
\* Position that was moved between Units, of which the unit filter lists
\* some and not all.
C19_Witness ==
    LET b == Built([unit_id |-> Some(1), position_id |-> None,
                    min_salary |-> None, max_salary |-> None])
        rows == ListRows(db, b.conditions, b.params)
    IN /\ rows # {}
       /\ Cardinality(rows) < Cardinality(DOMAIN db.contracts)
       /\ StatsRow(db, b.conditions, b.params).count_contracts = Cardinality(rows)
       /\ \E r \in rows : r.position_code = "LB"

\* C20: the statistics one report returns describe exactly the rows the
\* same report returns, whatever is committed between its two queries:
\* the count is the number of returned rows and the average is their
\* average.
C20_StatsDescribeReturnedRows ==
    rep.pc = "render" =>
        /\ rep.stats.count_contracts = Cardinality(rep.rows)
        /\ rep.stats.avg_salary = IF rep.rows = {} THEN None
                                  ELSE <<SumOfRows(rep.rows), Cardinality(rep.rows)>>

\* Contract row satisfies every filter of report r that is present.
Satisfies(row, r) ==
    /\ r.unit_id # None => row.unit_id = r.unit_id[1]
    /\ r.position_id # None => row.position_id = r.position_id[1]
    /\ r.min_salary # None => row.salary >= r.min_salary[1]
    /\ r.max_salary # None => row.salary <= r.max_salary[1]

\* C21: the listing query of a report returns exactly the Contracts of the
\* committed store that satisfy every present filter, unit and position by
\* equality and the salary bounds inclusively; with only min_salary = 5 and
\* max_salary = 10 these are exactly the Contracts with salary in [5, 10].
C21_ListingIsExactlyTheMatches ==
    [][(rep.pc = "list" /\ rep'.pc = "stats")
          => /\ {r.contract_id : r \in rep'.rows}
                   = {c \in DOMAIN db.contracts : Satisfies(db.contracts[c], rep)}
             /\ \A r \in rep'.rows : r.salary = db.contracts[r.contract_id].salary
             /\ (/\ rep.unit_id = None /\ rep.position_id = None
                 /\ rep.min_salary = Some(5) /\ rep.max_salary = Some(10))
                   => {r.contract_id : r \in rep'.rows}
                         = {c \in DOMAIN db.contracts :
                               db.contracts[c].salary \in 5..10}]_vars

\* C21 witness: the report with min_salary = 5 and max_salary = 10 has
\* listed a Contract with salary 10 and left out another Contract of the
\* store.
C21_Witness ==
    /\ rep.pc = "stats"
    /\ rep.unit_id = None /\ rep.position_id = None
    /\ rep.min_salary = Some(5) /\ rep.max_salary = Some(10)
    /\ \E r \in rep.rows : r.salary = 10
    /\ \E c \in DOMAIN db.contracts :
          /\ db.contracts[c].salary \in {3, 12}
          /\ c \notin {r.contract_id : r \in rep.rows}

\* C22: when no Contract of the store matches the filters of a report (an
\* empty store and min_salary > max_salary included), the listing returns
\* no row, the statistics are count 0 with a null average, and the report
\* renders "no data"; a report never ends in an error.
C22_NoMatchIsNoData ==
    [][LET nomatch == ~ \E c \in DOMAIN db.contracts :
                          Satisfies(db.contracts[c], rep)
       IN /\ (rep.pc = "list" /\ rep'.pc = "stats" /\ nomatch)
                => rep'.rows = {}
          /\ (rep.pc = "stats" /\ rep'.pc = "render" /\ nomatch)
                => rep'.stats = [count_contracts |-> 0, avg_salary |-> None]
          /\ (rep.pc = "render" /\ rep'.pc # "render"
                 /\ rep.stats.count_contracts = 0)
                => rep'.pc = "done" /\ rep'.summary = "no data"
          /\ rep'.pc # "error"]_vars

\* C22 witness: a report with min_salary 10 above max_salary 5 on the Unit
\* and Position of a stored Contract has rendered "no data".
C22_Witness ==
    /\ rep.pc = "done" /\ rep.summary = "no data"
    /\ rep.min_salary = Some(10) /\ rep.max_salary = Some(5)
    /\ rep.rows = {} /\ rep.stats.avg_salary = None
    /\ \E c \in DOMAIN db.contracts :
          db.contracts[c].unit_id = 2 /\ db.contracts[c].position_id = 2

\* C23 (as claimed): a create_contract that commits under a name an
\* existing Person already has adds no Person row.
C23_NoSecondPersonForName ==
    [][\A p \in SeqProcs :
          (/\ req[p].op = "create_contract"
           /\ pc[p] = "commit" /\ pc'[p] = "idle"
           /\ \E a \in DOMAIN db.people :
                 db.people[a] = tx[p].people[loc[p].next_id])
              => DOMAIN db'.people = DOMAIN db.people]_vars

\* C24: delete_unit of a Unit no Contract references commits and removes
\* only the Unit and its Positions; delete_position of a Position no
\* Contract references commits and removes only the Position; neither
\* removes a Person or a Contract.
C24_DeleteWithoutContracts ==
    [][\A p \in SeqProcs :
          /\ (/\ req[p].op = "delete_unit"
              /\ InTx(p) /\ pc[p] # "du_select" /\ pc'[p] = "idle"
              /\ ContractsOfUnit(db, req[p].unit_id) = {})
                 => /\ pc[p] = "commit"
                    /\ db'.people = db.people
                    /\ db'.contracts = db.contracts
                    /\ db'.positions =
                          Drop(db.positions, PositionsOfUnit(db, req[p].unit_id))
                    /\ db'.units = Drop(db.units, {req[p].unit_id})
          /\ (/\ req[p].op = "delete_position"
              /\ InTx(p) /\ pc[p] # "dp_select" /\ pc'[p] = "idle"
              /\ ContractsOfPosition(db, req[p].position_id) = {})
                 => /\ pc[p] = "commit"
                    /\ db'.people = db.people
                    /\ db'.contracts = db.contracts
                    /\ db'.units = db.units
                    /\ db'.positions = Drop(db.positions, {req[p].position_id})]_vars

\* C24 witness: delete_unit is about to commit the removal of a Unit that
\* has a Position and no Contract, in a store that holds Contracts and
\* Persons of another Unit.
C24_Witness ==
    \E p \in SeqProcs :
        /\ req[p].op = "delete_unit" /\ pc[p] = "commit"
        /\ req[p].unit_id \in DOMAIN pre[p].units
        /\ ContractsOfUnit(pre[p], req[p].unit_id) = {}
        /\ PositionsOfUnit(pre[p], req[p].unit_id) # {}
        /\ DOMAIN pre[p].contracts # {}
        /\ tx[p].people = pre[p].people

\* The identifier a request names is missing from store d.
NamesMissingRow(d, r) ==
    CASE r.op \in {"edit_contract", "delete_contract"}
             -> r.contract_id \notin DOMAIN d.contracts
      [] r.op = "delete_unit" -> r.unit_id \notin DOMAIN d.units
      [] r.op \in {"delete_position", "edit_position"}
             -> r.position_id \notin DOMAIN d.positions
      [] OTHER -> FALSE

\* C25 (as claimed): edit_contract, delete_contract, delete_unit,
\* delete_position and edit_position on an identifier that is not in the
\* store end by telling the caller not-found, not success.
C25_MissingIdentifierIsNotFound ==
    [][\A p \in SeqProcs :
          (/\ InTx(p) /\ pc[p] \in {"commit", "rollback"} /\ pc'[p] = "idle"
           /\ NamesMissingRow(db, req[p]))
              => Flash(req[p].op, loc[p].err) = "notfound"]_vars

\* C26 (as claimed): under fair scheduling, a unit of work that holds the
\* write lock eventually releases it, and a unit of work that waits at
\* BEGIN eventually acquires the lock and then completes.
C26_WaiterEventuallyRuns ==
    \A p \in Procs :
        /\ (lock = p) ~> (lock # p)
        /\ (pc[p] = "begin") ~> (lock = p)

\* The part of C26 that the code delivers: the holder of the write lock
\* eventually commits or rolls back and releases it.
C26_HolderEventuallyReleases ==
    \A p \in Procs : (lock = p) ~> (lock # p /\ pc[p] = "idle")

\* C27 (as claimed): whenever execute_in_transaction fails, the error that
\* reaches its caller is the error that caused the failure (of work, of a
\* statement, or of BEGIN when the lock cannot be taken); the rollback step
\* never replaces it.
C27_CauseIsDelivered ==
    [][\A p \in Procs :
          (pc[p] \in {"rollback", "begin"} /\ pc'[p] = "idle")
             => Raised(p) = Caught(p)]_vars

\* The Persons holding a Contract of Unit u in store d.
HoldersInUnit(d, u) == {d.contracts[c].person_id : c \in ContractsOfUnit(d, u)}

\* C28: inside the delete_unit unit of work the affected Person
\* identifiers are collected before any Contract is deleted; Persons are
\* checked and removed only after the Unit's Contracts are gone; the
\* Unit's Positions are deleted after the Contracts and the orphan checks;
\* and the Unit row is deleted last, just before COMMIT.
C28_DeleteUnitOrder ==
    [][\A p \in SeqProcs :
          (req[p].op = "delete_unit" /\ InTx(p) /\ pc[p] # "du_select")
             => LET u == req[p].unit_id
                    running == pc'[p] # "idle"
                IN /\ pc[p] = "du_delete_contracts"
                        => /\ tx[p] = pre[p]
                           /\ loc[p].person_ids = HoldersInUnit(tx[p], u)
                   /\ pc[p] = "du_orphans"
                        => /\ ContractsOfUnit(tx[p], u) = {}
                           /\ loc[p].person_ids \subseteq HoldersInUnit(pre[p], u)
                   /\ (running /\ tx'[p].contracts # tx[p].contracts)
                        => pc[p] = "du_delete_contracts"
                   /\ (running /\ tx'[p].people # tx[p].people)
                        => pc[p] = "du_orphans"
                   /\ (running /\ tx'[p].positions # tx[p].positions)
                        => /\ pc[p] = "du_delete_positions"
                           /\ ContractsOfUnit(tx[p], u) = {}
                           /\ loc[p].person_ids = {}
                   /\ (running /\ tx'[p].units # tx[p].units)
                        => /\ pc[p] = "du_delete_unit"
                           /\ ContractsOfUnit(tx[p], u) = {}
                           /\ PositionsOfUnit(tx[p], u) = {}
                           /\ pc'[p] = "commit"]_vars

\* C28 witness: delete_unit has deleted two Contracts of the Unit, has
\* removed one of the collected Persons and still has one to check, with
\* the Unit and its Positions still in place.
C28_Witness ==
    \E p \in SeqProcs :
        /\ req[p].op = "delete_unit" /\ pc[p] = "du_orphans"
        /\ Cardinality(ContractsOfUnit(pre[p], req[p].unit_id)) >= 2
        /\ tx[p].people # pre[p].people
        /\ loc[p].person_ids # {}
        /\ PositionsOfUnit(tx[p], req[p].unit_id) # {}
        /\ req[p].unit_id \in DOMAIN tx[p].units

\* C29: init_db is idempotent: run on a store that is already initialized,
\* it leaves every row of people, units, positions and contracts (and the
\* rest of the store) as it was, whatever rows the store holds.
C29_InitDbKeepsRows ==
    [][(boot = "init_db" /\ boot' = "imported")
          => /\ db'.people = db.people
             /\ db'.units = db.units
             /\ db'.positions = db.positions
             /\ db'.contracts = db.contracts
             /\ db' = db]_vars

\* C29 witness: init_db has just run again on a store that holds rows in
\* all four tables.
C29_Witness ==
    /\ boot = "imported"
    /\ db.people # EmptyMap /\ db.units # EmptyMap
    /\ db.positions # EmptyMap /\ db.contracts # EmptyMap
    /\ \A p \in Procs : pc[p] = "idle"

\* Every reference of store d names an existing row.
ReferencesResolve(d) ==
    /\ \A c \in DOMAIN d.contracts :
          /\ d.contracts[c].person_id \in DOMAIN d.people
          /\ d.contracts[c].position_id \in DOMAIN d.positions
          /\ d.contracts[c].unit_id \in DOMAIN d.units
    /\ \A q \in DOMAIN d.positions : d.positions[q].unit_id \in DOMAIN d.units

\* A statement result that rejected the statement and left store d alone.
Rejected(r, d) == r.err = "integrity" /\ r.d = d

\* C30: in every committed store every Contract's person_id, position_id
\* and unit_id and every Position's unit_id name an existing row; a
\* statement that would break this (a Contract updated to a person_id of
\* no Person, a Position added or moved to a Unit that does not exist) is
\* rejected with the store unchanged, and edit_contract and edit_position
\* then roll back to the store as it was.
C30_ReferentialIntegrity ==
    [][/\ ReferencesResolve(db) /\ ReferencesResolve(db')
       /\ \A u \in UnitIds \ DOMAIN db.units, k \in Codes :
             /\ InsertPosition(db, k, u).err = "integrity"
             /\ InsertPosition(db, k, u).d = db
             /\ \A q \in DOMAIN db.positions :
                   Rejected(UpdatePosition(db, q, k, u), db)
       /\ \A c \in DOMAIN db.contracts, pid \in PersonIds \ DOMAIN db.people :
             Rejected(UpdateContract(db, c,
                         [db.contracts[c] EXCEPT !.person_id = pid]), db)
       /\ \A p \in SeqProcs :
             /\ (pc[p] = "ec_update" /\ pc'[p] = "commit")
                   => ReferencesResolve(tx'[p])
             /\ (pc[p] = "ec_update" /\ pc'[p] = "rollback")
                   => /\ loc'[p].err = "integrity" /\ tx'[p] = tx[p]
                      /\ db' = db
             /\ (pc[p] = "ep_update_position" /\ pc'[p] = "rollback")
                   => /\ loc'[p].err = "integrity" /\ tx'[p] = tx[p]
                      /\ db' = db
             /\ (/\ req[p].op \in {"edit_contract", "edit_position"}
                 /\ pc[p] = "rollback" /\ pc'[p] = "idle")
                   => db' = db /\ db = pre[p]]_vars

\* C30 witness: edit_contract named a Position of the chosen Unit and a
\* person_id of no Person; the UPDATE was rejected and the request is
\* about to roll back.
C30_Witness ==
    \E p \in SeqProcs :
        /\ req[p].op = "edit_contract" /\ pc[p] = "rollback"
        /\ loc[p].err = "integrity"
        /\ req[p].contract_id \in DOMAIN db.contracts
        /\ PositionUnitMatches(tx[p], req[p].position_id, req[p].unit_id)
        /\ \E pid \in PersonIds : pid \notin DOMAIN tx[p].people

\* C31: delete_unit and delete_position never abort: no statement of the
\* cascade raises (every Contract that references a Position of the Unit
\* carries the Unit's unit_id and is deleted first), the unit of work
\* reaches COMMIT, and the commit leaves the store without the Unit and
\* its Positions, or without the Position, and without their Contracts.
C31_CascadeNeverAborts ==
    [][\A p \in Procs :
          (req[p].op \in {"delete_unit", "delete_position"} /\ InTx(p))
             => /\ pc[p] # "rollback" /\ pc'[p] # "rollback"
                /\ loc[p].err = "none"
                /\ (pc[p] = "commit" /\ pc'[p] = "idle" /\ req[p].op = "delete_unit")
                      => /\ req[p].unit_id \notin DOMAIN db'.units
                         /\ PositionsOfUnit(db', req[p].unit_id) = {}
                         /\ ContractsOfUnit(db', req[p].unit_id) = {}
                /\ (pc[p] = "commit" /\ pc'[p] = "idle" /\ req[p].op = "delete_position")
                      => /\ req[p].position_id \notin DOMAIN db'.positions
                         /\ ContractsOfPosition(db', req[p].position_id) = {}]_vars

\* C31 witness: delete_unit is about to commit the removal of a Unit that
\* had a Position and a Contract on that Position.
C31_Witness ==
    \E p \in Procs :
        /\ req[p].op = "delete_unit" /\ pc[p] = "commit"
        /\ req[p].unit_id \in DOMAIN pre[p].units
        /\ \E c \in ContractsOfUnit(pre[p], req[p].unit_id) :
              pre[p].contracts[c].position_id
                  \in PositionsOfUnit(pre[p], req[p].unit_id)
        /\ req[p].unit_id \notin DOMAIN tx[p].units

\* Every Contract of store d carries the unit_id of its Position.
UnitsAgree(d) ==
    \A c \in DOMAIN d.contracts :
        PositionUnitMatches(d, d.contracts[c].position_id,
                            d.contracts[c].unit_id)

\* Request p has passed _position_unit_matches and is about to write its
\* Contract.
CheckedNotWritten(p) == pc[p] \in {"ec_update", "cc_insert_contract"}

\* C32: with edit_contract, create_contract and edit_position running
\* concurrently, every committed Contract carries the unit_id of its
\* Position: between the position/unit check of a request and its Contract
\* write the request holds the write lock, no other request is inside a
\* transaction, the committed Position still belongs to the Unit that was
\* checked, and an edit_position between its two UPDATEs is alone as well.
C32_ConcurrentUnitsAgree ==
    [][/\ UnitsAgree(db) /\ UnitsAgree(db')
       /\ \A p \in Procs :
             /\ (CheckedNotWritten(p) \/ pc[p] = "ep_update_contracts")
                   => /\ lock = p
                      /\ \A q \in Procs \ {p} : ~InTx(q)
             /\ CheckedNotWritten(p)
                   => /\ PositionUnitMatches(db, req[p].position_id,
                                             req[p].unit_id)
                      /\ PositionUnitMatches(tx[p], req[p].position_id,
                                             req[p].unit_id)
             /\ (pc[p] = "commit" /\ pc'[p] = "idle") => UnitsAgree(tx[p])]_vars

\* C32 witness: one request has checked a Position against a Unit and has
\* not written its Contract yet, while an edit_position of the same
\* Position, which already has a committed Contract, waits at BEGIN.
C32_Witness ==
    \E p, q \in Procs :
        /\ p # q
        /\ CheckedNotWritten(p)
        /\ req[q].op = "edit_position" /\ pc[q] = "begin"
        /\ req[q].position_id = req[p].position_id
        /\ ContractsOfPosition(db, req[p].position_id) # {}

\* The Person of the Contract a delete_contract request is deleting.
DcPerson(p) == CHOOSE pid \in loc[p].person_ids : TRUE

\* C33: concurrent delete_contract requests on Contracts of one Person are
\* serialised by the write lock: the remaining-contract count is taken
\* under the lock, after the request's own delete, on a store no other
\* request has changed meanwhile, so the commit that leaves the Person
\* without a Contract also removes the Person row, and a commit that
\* leaves the Person a Contract keeps the row.
C33_LastDeleteRemovesPerson ==
    [][\A p \in Procs :
          (req[p].op = "delete_contract" /\ loc[p].person_ids # {})
             => LET c == req[p].contract_id
                    pid == DcPerson(p)
                IN /\ pc[p] = "dc_orphan"
                        => /\ lock = p
                           /\ ContractsOfPerson(tx[p], pid)
                                 = ContractsOfPerson(db, pid) \ {c}
                   /\ (pc[p] = "commit" /\ pc'[p] = "idle")
                        => /\ c \notin DOMAIN db'.contracts
                           /\ (pid \in DOMAIN db'.people)
                                 <=> (ContractsOfPerson(db', pid) # {})
                   /\ pc'[p] # "rollback"]_vars

\* C33 witness: a Person holds exactly two Contracts; one delete_contract
\* has deleted one of them and is about to count the rest while a second
\* delete_contract waits for the write lock.
C33_Witness ==
    \E p, q \in Procs :
        /\ p # q
        /\ req[p].op = "delete_contract" /\ pc[p] = "dc_orphan"
        /\ Cardinality(ContractsOfPerson(pre[p], DcPerson(p))) = 2
        /\ Cardinality(ContractsOfPerson(tx[p], DcPerson(p))) = 1
        /\ req[q].op = "delete_contract" /\ pc[q] = "begin"

\* C34: delete_contract of a contract identifier that names no Contract
\* (for instance one deleted before, by this or by a concurrent request)
\* runs no statement after its SELECT, is not rolled back, and commits with
\* every table as it was: no Person and no other row is removed.
C34_DeleteMissingChangesNothing ==
    [][\A p \in Procs :
          (/\ req[p].op = "delete_contract" /\ InTx(p) /\ pc[p] # "dc_select"
           /\ req[p].contract_id \notin DOMAIN pre[p].contracts)
             => /\ pc[p] = "commit" /\ pc'[p] \in {"commit", "idle"}
                /\ tx[p] = pre[p] /\ pre[p] = db
                /\ db' = db]_vars

\* C34 witness: two delete_contract requests were entered for one Contract;
\* the first has committed, and the second, which found no row, is about to
\* commit on a store that still holds a Person and a Contract.
C34_Witness ==
    \E p \in Procs :
        /\ req[p].op = "delete_contract" /\ pc[p] = "commit"
        /\ req[p].contract_id \notin DOMAIN pre[p].contracts
        /\ req[p].contract_id \in 2..db.seq.contracts
        /\ db.people # EmptyMap /\ db.contracts # EmptyMap

\* C35: when the commit that follows a create_contract is the
\* delete_contract of the Contract it created, the people and contracts
\* tables are again what they were before the create, and the next
\* create_contract is assigned the Person identifier the first one was.
C35_CreateDeleteRoundTrip ==
    [][/\ trip'.phase = "deleted"
            => /\ db'.people = trip'.people
               /\ db'.contracts = trip'.contracts
       /\ \A p \in SeqProcs :
             (/\ trip.phase = "deleted" /\ req[p].op = "create_contract"
              /\ pc[p] = "commit" /\ pc'[p] = "idle")
                => /\ loc[p].next_id = trip.person_id
                   /\ pre[p].people = trip.people
                   /\ pre[p].contracts = trip.contracts]_vars

\* C35 witness: on a store that held Person 1 and a Contract, a
\* create_contract assigned Person 2, the delete_contract of its Contract
\* committed next, and the following create_contract is about to commit.
C35_Witness ==
    \E p \in SeqProcs :
        /\ trip.phase = "deleted"
        /\ DOMAIN trip.people = {1} /\ DOMAIN trip.contracts = {1}
        /\ trip.person_id = 2
        /\ req[p].op = "create_contract" /\ pc[p] = "commit"

\* C36: as long as no edit_contract runs, every Person of the committed
\* store is referenced by exactly one Contract and every Contract by its
\* own Person, so people and contracts hold the same number of rows.
C36_OnePersonPerContract ==
    /\ \A pid \in DOMAIN db.people :
          Cardinality(ContractsOfPerson(db, pid)) = 1
    /\ \A c \in DOMAIN db.contracts :
          db.contracts[c].person_id \in DOMAIN db.people
    /\ Cardinality(DOMAIN db.people) = Cardinality(DOMAIN db.contracts)

\* C36 witness: two Contracts were created, a Position holding one of them
\* was moved to the other Unit, and the store holds two Persons.
C36_Witness ==
    /\ Cardinality(DOMAIN db.people) = 2
    /\ \E c \in DOMAIN db.contracts :
          db.positions[db.contracts[c].position_id].unit_id
              # ConcDb.positions[db.contracts[c].position_id].unit_id
    /\ \A p \in Procs : pc[p] = "idle"

\* C36, the excluded operation: with edit_contract some committed store
\* has a Person without a Contract.
C36_EditContractBreaksIt ==
    \E pid \in DOMAIN db.people : ContractsOfPerson(db, pid) = {}

====
